---- MODULE Spec2Model ----
(***************************************************************************)
(* create-titas-app: the createApp pipeline (commands/create.js, carried   *)
(* in src/README.md from line 344 on), the file utilities it calls         *)
(* (fileUtils.js, src/unnamed/part_001), the git utilities (gitUtils.js,   *)
(* src/src/utils/templateProcessor.js from line 128 on) and the CLI entry  *)
(* (src/unnamed/part_003).                                                 *)
(*                                                                         *)
(* Strings are sequences of tokens.  A file or directory name is a         *)
(* sequence of tokens (".gitignore" is <<".git", "ignore">>), chosen so    *)
(* that the texts the code searches for (".git", "node_modules",           *)
(* ".template", the extensions) occur in a name only as whole tokens; a    *)
(* substring search is then a token search.  A path relative to a root is  *)
(* a sequence of names; a path string is the names joined by "/".          *)
(***************************************************************************)
EXTENDS Integers, Sequences, FiniteSets, TLC

VARIABLES
    projectName,    \* argument <project-name>
    options,        \* commander's options object
    layout,         \* where the package (and so __dirname) lives
    templateDisk,   \* what templates/<templateType> holds on disk
    target0,        \* the target path before the run
    target,         \* the target path now
    pc,             \* createApp's position
    templateType,   \* result of determineTemplate
    prompted,       \* inquirer.prompt was shown
    dirCheck,       \* result of checkDirectory
    thrown,         \* an error is propagating out of the try block
    exitCode,       \* process exit code ("none" while running)
    steps,          \* history: the steps completed, in order
    commands,       \* history: the external commands run, in order
    results,        \* history: what each awaited helper returned
    processed,      \* history: the target as processTemplate left it
    atInstall       \* history: the target when the install process started

vars == <<projectName, options, layout, templateDisk, target0, target, pc,
          templateType, prompted, dirCheck, thrown, exitCode, steps,
          commands, results, processed, atInstall>>

----------------------------------------------------------------------------
(* Bounds of the model. *)

\* Entries (files and directories) in a generated template tree; a tree of
\* k entries is up to k levels deep.
MaxEntries == 3

----------------------------------------------------------------------------
(* Strings as token sequences. *)

\* String.prototype.includes
Includes(s, needle) ==
    \E i \in 1..Len(s) : s[i] = needle

\* String.prototype.endsWith
EndsWith(s, suffix) ==
    Len(s) > 0 /\ s[Len(s)] = suffix

\* index of the first occurrence of a token, 0 if none
IndexOf(s, needle) ==
    IF Includes(s, needle)
    THEN CHOOSE i \in 1..Len(s) :
            s[i] = needle /\ \A j \in 1..(i - 1) : s[j] # needle
    ELSE 0

\* String.prototype.replace(needle, ""): the first occurrence only
RemoveFirst(s, needle) ==
    LET i == IndexOf(s, needle)
    IN  IF i = 0 THEN s
        ELSE SubSeq(s, 1, i - 1) \o SubSeq(s, i + 1, Len(s))

\* tokens that begin with a dot
DotTokens ==
    {".js", ".jsx", ".ts", ".tsx", ".json", ".md", ".html", ".css",
     ".template", ".lock", ".txt", ".png", ".git"}

RECURSIVE JoinPath(_)
\* path.join of the names of a relative path
JoinPath(p) ==
    IF Len(p) = 0 THEN <<>>
    ELSE IF Len(p) = 1 THEN p[1]
    ELSE p[1] \o <<"/">> \o JoinPath(Tail(p))

RECURSIVE SplitPath(_)
\* the names of a path string; empty segments vanish as the OS drops them
SplitPath(s) ==
    IF Len(s) = 0 THEN <<>>
    ELSE LET i == IndexOf(s, "/")
         IN  IF i = 0 THEN <<s>>
             ELSE IF i = 1 THEN SplitPath(Tail(s))
             ELSE <<SubSeq(s, 1, i - 1)>> \o SplitPath(SubSeq(s, i + 1, Len(s)))

\* path.basename of a relative path
Basename(p) ==
    IF Len(p) = 0 THEN <<>> ELSE p[Len(p)]

\* path.extname: from the last dot of the base name, "" for a leading dot
Extname(name) ==
    IF Len(name) >= 2 /\ name[Len(name)] \in DotTokens
    THEN name[Len(name)] ELSE ""

\* the proper and improper prefixes of a path, the empty path (the root) too
Prefixes(p) ==
    {SubSeq(p, 1, n) : n \in 0..Len(p)}

Parent(p) ==
    SubSeq(p, 1, Len(p) - 1)

----------------------------------------------------------------------------
(* Names used by the code and by the model's trees. *)

NodeModules == <<"node_modules">>
DotGit == <<".git">>
Gitignore == <<".git", "ignore">>
PackageLock == <<"package-lock", ".json">>
YarnLock == <<"yarn", ".lock">>
PackageJson == <<"package", ".json">>
ReadmeMd == <<"README", ".md">>
SrcDir == <<"src">>
IndexTemplate == <<"index", ".js", ".template">>
IndexJs == <<"index", ".js">>
LogoPng == <<"logo", ".png">>
OldTxt == <<"old", ".txt">>
PagesDir == <<"pages">>

----------------------------------------------------------------------------
(* File trees.  A tree is a function from relative paths to entries; the   *)
(* root directory itself is the empty path and is not an entry.            *)

\* a parsed JSON document: none (not JSON), null, or a manifest object; the
\* name, the description and the command of each script are texts
EmptyMap ==
    [k \in {} |-> ""]

NoJson ==
    [tag |-> "none", keys |-> {}, name |-> <<>>, version |-> "",
     description |-> <<>>, scripts |-> EmptyMap, dependencies |-> EmptyMap,
     devDependencies |-> EmptyMap]

JsonNull ==
    [NoJson EXCEPT !.tag = "null"]

\* mode: what the process may do with a file's content: "rw" read and
\* write it, "r" read it only, "none" neither
Dir ==
    [type |-> "dir", text |-> <<>>, json |-> NoJson, mode |-> "rw"]

TextFile(t) ==
    [type |-> "file", text |-> t, json |-> NoJson, mode |-> "rw"]

JsonFile(doc) ==
    [type |-> "file", text |-> <<>>, json |-> doc, mode |-> "rw"]

\* a file fs.writeFile fails on
ReadOnlyFile(t) ==
    [TextFile(t) EXCEPT !.mode = "r"]

\* a file fs.readFile fails on
UnreadableFile(t) ==
    [TextFile(t) EXCEPT !.mode = "none"]

EmptyTree ==
    [p \in {} |-> Dir]

Exists(tree, p) ==
    p = <<>> \/ p \in DOMAIN tree

IsDir(tree, p) ==
    p = <<>> \/ (p \in DOMAIN tree /\ tree[p].type = "dir")

IsFile(tree, p) ==
    p \in DOMAIN tree /\ tree[p].type = "file"

\* the entries directly inside directory d
Children(tree, d) ==
    {p \in DOMAIN tree : Len(p) = Len(d) + 1 /\ Parent(p) = d}

\* the entries strictly below path d
Below(tree, d) ==
    {p \in DOMAIN tree : Len(p) > Len(d) /\ SubSeq(p, 1, Len(d)) = d}

\* the tree restricted to a set of its paths
Restrict(tree, ps) ==
    [p \in ps |-> tree[p]]

\* b's entries laid over a's
Overlay(a, b) ==
    [p \in DOMAIN a \cup DOMAIN b |-> IF p \in DOMAIN b THEN b[p] ELSE a[p]]

\* the names the generated template trees are built from
GenNames ==
    {NodeModules, DotGit, Gitignore, PackageLock, YarnLock, SrcDir}

\* the entries a generated tree holds: a directory or a small text file
GenEntries ==
    {Dir, TextFile(<<"x">>)}

\* the generated names in the order the trees are built in
GenOrder ==
    <<NodeModules, DotGit, Gitignore, PackageLock, YarnLock, SrcDir>>

\* the rank of a generated name
GenRank(n) ==
    CHOOSE i \in 1..Len(GenOrder) : n = GenOrder[i]

RECURSIVE RankLess(_, _)
\* p before q, paths of one length compared name by name
RankLess(p, q) ==
    IF Len(p) = 0 THEN FALSE
    ELSE IF GenRank(p[1]) # GenRank(q[1]) THEN GenRank(p[1]) < GenRank(q[1])
    ELSE RankLess(Tail(p), Tail(q))

\* p before q: shorter paths first, so that a directory comes before what
\* it holds
PathLess(p, q) ==
    Len(p) < Len(q) \/ (Len(p) = Len(q) /\ RankLess(p, q))

\* the paths by which tree t can grow by one entry, each after all of t's
Extensions(t) ==
    LET dirs == {d \in {<<>>} \cup DOMAIN t : IsDir(t, d)}
        last == IF DOMAIN t = {} THEN <<>>
                ELSE CHOOSE y \in DOMAIN t :
                         \A z \in DOMAIN t \ {y} : PathLess(z, y)
    IN  {x \in {Append(q, n) : q \in dirs, n \in GenNames} :
            PathLess(last, x)}

RECURSIVE TreesOf(_)
\* every tree of exactly k entries, each built once
TreesOf(k) ==
    IF k = 0 THEN {EmptyTree}
    ELSE UNION {{t @@ (p :> e) : p \in Extensions(t), e \in GenEntries} :
                   t \in TreesOf(k - 1)}

\* every tree of at most k entries
TreesUpTo(k) ==
    UNION {TreesOf(j) : j \in 0..k}

----------------------------------------------------------------------------
(* The target path: absent, a regular file, or a directory with entries.   *)
(* listable: fs.readdir succeeds on it.  writable: entries can be created  *)
(* in it (for an absent target: its parent lets it be created).            *)

Target(kind, listable, writable, entries) ==
    [kind |-> kind, listable |-> listable, writable |-> writable,
     entries |-> entries]

\* what the target directory held before the run, when it held anything
OldEntries ==
    (<<OldTxt>> :> TextFile(<<"keep">>))

\* the states the target path can be in before the run
InitialTargets ==
    {Target("absent", FALSE, TRUE, EmptyTree),
     Target("absent", FALSE, FALSE, EmptyTree),
     Target("file", FALSE, FALSE, EmptyTree),
     Target("dir", TRUE, TRUE, EmptyTree),
     Target("dir", TRUE, TRUE, OldEntries),
     Target("dir", FALSE, TRUE, OldEntries)}

\* fs.pathExists
PathExists(t, p) ==
    /\ t.kind # "absent"
    /\ p # <<>> => (t.kind = "dir" /\ p \in DOMAIN t.entries)

\* whether a write below the target root can succeed
CanWrite(t) ==
    t.kind = "dir" /\ t.writable

----------------------------------------------------------------------------
(* fileUtils.js: checkDirectory, ensureDirectory, copyFiles. *)

\* checkDirectory that reports a target it cannot list as occupied
checkDirectory_Occupied(t) ==
    IF ~PathExists(t, <<>>) THEN [exists |-> FALSE, isEmpty |-> TRUE]
    ELSE IF t.kind = "dir" /\ t.listable
         THEN [exists |-> TRUE, isEmpty |-> DOMAIN t.entries = {}]
         ELSE [exists |-> TRUE, isEmpty |-> FALSE]

\* checkDirectory: readdir's error is caught and reported as "absent"
checkDirectory(t) ==
    IF ~PathExists(t, <<>>) THEN [exists |-> FALSE, isEmpty |-> TRUE]
    ELSE IF t.kind = "dir" /\ t.listable
         THEN [exists |-> TRUE, isEmpty |-> DOMAIN t.entries = {}]
         ELSE [exists |-> FALSE, isEmpty |-> TRUE]

\* ensureDirectory: fs.ensureDir, its error caught and turned into false
ensureDirectory(t) ==
    IF t.kind = "dir" THEN [ok |-> TRUE, fs |-> t]
    ELSE IF t.kind = "absent" /\ t.writable
         THEN [ok |-> TRUE, fs |-> Target("dir", TRUE, TRUE, EmptyTree)]
         ELSE [ok |-> FALSE, fs |-> t]

\* where the package lives: a checkout, or installed as a dependency
PackageRoot(lay) ==
    IF lay = "checkout"
    THEN <<"/", "home", "/", "dev", "/", "create-titas-app">>
    ELSE <<"/", "usr", "/", "lib", "/", "node_modules", "/",
           "create-titas-app">>

\* path.resolve(__dirname, "../../templates", templateType)
TemplatePath(lay, type) ==
    PackageRoot(lay) \o <<"/", "templates", "/", type>>

\* the path string of relative path p under the root string
AbsPath(root, p) ==
    IF p = <<>> THEN root ELSE root \o <<"/">> \o JoinPath(p)

\* path.basename of a path string
BasenameOf(src) ==
    LET names == SplitPath(src)
    IN  Basename(names)

\* createAppFilter without the two lock files
createAppFilter_NoLocks(src) ==
    BasenameOf(src) # NodeModules

\* the filter createApp hands to copyFiles
createAppFilter(src) ==
    BasenameOf(src) \notin {PackageLock, YarnLock, NodeModules}

\* copyFilter without the two substring tests
copyFilter_CustomOnly(src, filter) ==
    IF filter # "null" THEN createAppFilter(src) ELSE TRUE

\* copyFiles' own filter: the two substring tests, then the custom filter
\* if one was given; filter is "null" or "createApp", the function createApp
\* passes
copyFilter(src, filter) ==
    IF Includes(src, "node_modules") \/ Includes(src, ".git")
    THEN FALSE
    ELSE IF filter # "null" THEN createAppFilter(src)
    ELSE TRUE

\* the paths of a tree fs.copy reaches: it asks the filter for the root and
\* for every entry it meets, and does not descend into what was refused
CopiedPaths(tree, root, filter) ==
    {p \in DOMAIN tree :
        \A q \in Prefixes(p) : copyFilter(AbsPath(root, q), filter)}

\* fs.copy(source, destination, copyOptions), the filter of copyOptions
\* being copyFilter; disk is "missing" or the source tree
FsCopy(disk, root, t, overwrite, filter) ==
    IF disk.kind = "missing" THEN [ok |-> FALSE, fs |-> t]
    ELSE IF t.kind = "file" THEN [ok |-> FALSE, fs |-> t]
    ELSE IF ~copyFilter(root, filter) THEN [ok |-> TRUE, fs |-> t]
    ELSE LET copied == Restrict(disk.tree, CopiedPaths(disk.tree, root, filter))
             kept == IF overwrite THEN copied
                     ELSE Restrict(copied, {p \in DOMAIN copied :
                              ~IsFile(t.entries, p)})
         IN  IF ~t.writable /\ (t.kind = "absent" \/ DOMAIN kept # {})
             THEN [ok |-> FALSE, fs |-> t]
             ELSE [ok |-> TRUE,
                   fs |-> Target("dir",
                                 IF t.kind = "dir" THEN t.listable ELSE TRUE,
                                 t.writable, Overlay(t.entries, kept))]

\* copyFiles(source, destination, {overwrite, filter}): fs.copy under the
\* combined filter; any error is caught and turned into false
copyFiles(disk, root, t, overwrite, filter) ==
    FsCopy(disk, root, t, overwrite, filter)

----------------------------------------------------------------------------
(* fileUtils.js: processTemplateFiles, processDirectory, processFile. *)

\* the default fileExtensions of processTemplateFiles
fileExtensions ==
    {".js", ".jsx", ".ts", ".tsx", ".json", ".md", ".html", ".css"}

\* the default templateSuffix of processTemplateFiles
templateSuffix ==
    ".template"

\* tokens matched by \w+
WordTokens ==
    {"projectName", "templateType", "portfolio", "ecom", "dashboard",
     "webapp", "typescript", "tailwind", "git", "install", "verbose",
     "author", "true", "false", "x", "keep"}

RECURSIVE ReplaceVariables_NoOwnCheck(_, _)
\* ReplaceVariables without the hasOwnProperty test: a word that is no key
\* is replaced by "undefined"
ReplaceVariables_NoOwnCheck(content, variables) ==
    IF Len(content) = 0 THEN [text |-> <<>>, changed |-> FALSE]
    ELSE IF /\ Len(content) >= 3
            /\ content[1] = "{{"
            /\ content[2] \in WordTokens
            /\ content[3] = "}}"
         THEN LET rest == ReplaceVariables_NoOwnCheck(
                              SubSeq(content, 4, Len(content)), variables)
              IN  [text |-> (IF content[2] \in DOMAIN variables
                             THEN variables[content[2]]
                             ELSE <<"undefined">>) \o rest.text,
                   changed |-> TRUE]
         ELSE LET rest == ReplaceVariables_NoOwnCheck(Tail(content),
                                                      variables)
              IN  [text |-> <<content[1]>> \o rest.text,
                   changed |-> rest.changed]

RECURSIVE ReplaceVariables(_, _)
\* content.replace(/\{\{(\w+)\}\}/g, ...): a known key is replaced by its
\* value, an unknown one is kept, and the scan goes on after the match
ReplaceVariables(content, variables) ==
    IF Len(content) = 0 THEN [text |-> <<>>, changed |-> FALSE]
    ELSE IF /\ Len(content) >= 3
            /\ content[1] = "{{"
            /\ content[2] \in WordTokens
            /\ content[3] = "}}"
         THEN LET rest == ReplaceVariables(SubSeq(content, 4, Len(content)),
                                           variables)
              IN  IF content[2] \in DOMAIN variables
                  THEN [text |-> variables[content[2]] \o rest.text,
                        changed |-> TRUE]
                  ELSE [text |-> SubSeq(content, 1, 3) \o rest.text,
                        changed |-> rest.changed]
         ELSE LET rest == ReplaceVariables(Tail(content), variables)
              IN  [text |-> <<content[1]>> \o rest.text,
                   changed |-> rest.changed]

\* the replacement applied to a file's content: the text of a text file,
\* the texts of a JSON document
ReplaceInEntry(e, variables) ==
    IF e.json.tag = "object"
    THEN LET n == ReplaceVariables(e.json.name, variables)
             d == ReplaceVariables(e.json.description, variables)
             c == [k \in DOMAIN e.json.scripts |->
                      ReplaceVariables(e.json.scripts[k], variables)]
         IN  [entry |-> [e EXCEPT !.json.name = n.text,
                                  !.json.description = d.text,
                                  !.json.scripts =
                                      [k \in DOMAIN c |-> c[k].text]],
              changed |-> \/ n.changed \/ d.changed
                          \/ \E k \in DOMAIN c : c[k].changed]
    ELSE LET r == ReplaceVariables(e.text, variables)
         IN  [entry |-> [e EXCEPT !.text = r.text], changed |-> r.changed]

\* path.resolve(projectName)
ProjectPath(name) ==
    <<"/", "work", "/">> \o name

\* the path relative to root of path string s; "outside" when s is not
\* below root
RelativeTo(root, s) ==
    IF Len(s) >= Len(root) /\ SubSeq(s, 1, Len(root)) = root
       /\ (Len(s) = Len(root) \/ s[Len(root) + 1] = "/")
    THEN [inside |-> TRUE, path |-> SplitPath(SubSeq(s, Len(root) + 1, Len(s)))]
    ELSE [inside |-> FALSE, path |-> <<>>]

\* fs.move(src, dest) without overwrite, inside one tree: refused when dest
\* exists or a parent of dest is a file; missing parents are created
FsMove(tree, src, dest) ==
    IF Exists(tree, dest) \/ \E q \in Prefixes(dest) : IsFile(tree, q)
    THEN [ok |-> FALSE, tree |-> tree]
    ELSE LET parents == (Prefixes(dest) \ {<<>>, dest}) \ DOMAIN tree
             rest == Restrict(tree, DOMAIN tree \ {src})
         IN  [ok |-> TRUE,
              tree |-> [q \in parents |-> Dir] @@ (dest :> tree[src]) @@ rest]

\* processFile without the test of the extension
processFile_AnyExtension(tree, root, p, variables) ==
    LET filePath == AbsPath(root, p)
        isTemplateFile == EndsWith(filePath, templateSuffix)
        r == ReplaceInEntry(tree[p], variables)
        written == IF r.changed THEN [tree EXCEPT ![p] = r.entry] ELSE tree
    IN  IF isTemplateFile
        THEN LET newFilePath == RemoveFirst(filePath, templateSuffix)
                 dest == RelativeTo(root, newFilePath)
             IN  IF dest.inside
                 THEN FsMove(written, p, dest.path).tree
                 ELSE Restrict(written, DOMAIN written \ {p})
        ELSE written

\* processFile that writes the new content back for template files only
processFile_TemplatesOnly(tree, root, p, variables) ==
    LET filePath == AbsPath(root, p)
        ext == Extname(BasenameOf(filePath))
        isTemplateFile == EndsWith(filePath, templateSuffix)
    IN  IF isTemplateFile \/ ext \in fileExtensions
        THEN LET r == ReplaceInEntry(tree[p], variables)
                 written == IF r.changed /\ isTemplateFile
                            THEN [tree EXCEPT ![p] = r.entry]
                            ELSE tree
             IN  IF isTemplateFile
                 THEN LET newFilePath == RemoveFirst(filePath, templateSuffix)
                          dest == RelativeTo(root, newFilePath)
                      IN  IF dest.inside
                          THEN FsMove(written, p, dest.path).tree
                          ELSE Restrict(written, DOMAIN written \ {p})
                 ELSE written
        ELSE tree

\* processFile: replace the variables of an eligible file, write it back
\* when something changed, and move a template file to its path with the
\* first ".template" removed; every error (the file cannot be read, cannot
\* be written, cannot be moved) is caught and only warned about, and what
\* follows it in the try block is not done
processFile(tree, root, p, variables) ==
    LET filePath == AbsPath(root, p)
        ext == Extname(BasenameOf(filePath))
        isTemplateFile == EndsWith(filePath, templateSuffix)
    IN  IF isTemplateFile \/ ext \in fileExtensions
        THEN LET r == ReplaceInEntry(tree[p], variables)
                 written == IF r.changed THEN [tree EXCEPT ![p] = r.entry]
                            ELSE tree
             IN  IF tree[p].mode = "none" THEN tree
                 ELSE IF r.changed /\ tree[p].mode = "r" THEN tree
                 ELSE IF isTemplateFile
                 THEN LET newFilePath == RemoveFirst(filePath, templateSuffix)
                          dest == RelativeTo(root, newFilePath)
                      IN  IF dest.inside
                          THEN FsMove(written, p, dest.path).tree
                          ELSE Restrict(written, DOMAIN written \ {p})
                 ELSE written
        ELSE tree

\* the order in which tokens sort
TokenOrder ==
    <<".git", ".json", ".js", ".lock", ".md", ".png", ".template", ".txt",
      "README", "ignore", "index", "logo", "node_modules", "old", "package",
      "package-lock", "pages", "src", "styles", "yarn">>

RECURSIVE LexLeq(_, _)
\* a <= b, names compared token by token
LexLeq(a, b) ==
    IF Len(a) = 0 THEN TRUE
    ELSE IF Len(b) = 0 THEN FALSE
    ELSE IF IndexOf(TokenOrder, a[1]) < IndexOf(TokenOrder, b[1]) THEN TRUE
    ELSE IF IndexOf(TokenOrder, a[1]) > IndexOf(TokenOrder, b[1]) THEN FALSE
    ELSE LexLeq(Tail(a), Tail(b))

RECURSIVE SortNames(_, _)
\* the names of a set in ascending or descending order
SortNames(S, ascending) ==
    IF S = {} THEN <<>>
    ELSE LET m == CHOOSE x \in S : \A y \in S :
                      IF ascending THEN LexLeq(x, y) ELSE LexLeq(y, x)
         IN  <<m>> \o SortNames(S \ {m}, ascending)

\* fs.readdir: the names in a directory, in the order the file system
\* lists them
Readdir(tree, d, ascending) ==
    SortNames({Basename(p) : p \in Children(tree, d)}, ascending)

RECURSIVE processDirectory(_, _, _, _, _)
RECURSIVE WalkItems(_, _, _, _, _, _)
\* processDirectory: list the directory once, then visit the items in turn;
\* an item that is gone when it is visited makes fs.stat throw
processDirectory(tree, root, d, variables, ascending) ==
    WalkItems(tree, root, d, Readdir(tree, d, ascending), variables, ascending)

RECURSIVE WalkItems_StopsAtFailure(_, _, _, _, _, _)
\* WalkItems that lets the error of a file it cannot read end the walk
WalkItems_StopsAtFailure(tree, root, d, items, variables, ascending) ==
    IF Len(items) = 0 THEN [ok |-> TRUE, tree |-> tree]
    ELSE LET item == Head(items)
             itemPath == Append(d, item)
         IN  IF ~Exists(tree, itemPath) THEN [ok |-> FALSE, tree |-> tree]
             ELSE IF IsDir(tree, itemPath)
             THEN IF item = NodeModules \/ item = DotGit
                  THEN WalkItems_StopsAtFailure(tree, root, d, Tail(items),
                                                variables, ascending)
                  ELSE LET sub == processDirectory(tree, root, itemPath,
                                                   variables, ascending)
                       IN  IF sub.ok
                           THEN WalkItems_StopsAtFailure(sub.tree, root, d,
                                    Tail(items), variables, ascending)
                           ELSE sub
             ELSE IF tree[itemPath].mode = "none"
             THEN [ok |-> FALSE, tree |-> tree]
             ELSE WalkItems_StopsAtFailure(
                      processFile(tree, root, itemPath, variables),
                      root, d, Tail(items), variables, ascending)

\* the loop of processDirectory over the listed items
WalkItems(tree, root, d, items, variables, ascending) ==
    IF Len(items) = 0 THEN [ok |-> TRUE, tree |-> tree]
    ELSE LET item == Head(items)
             itemPath == Append(d, item)
         IN  IF ~Exists(tree, itemPath) THEN [ok |-> FALSE, tree |-> tree]
             ELSE IF IsDir(tree, itemPath)
             THEN IF item = NodeModules \/ item = DotGit
                  THEN WalkItems(tree, root, d, Tail(items), variables,
                                 ascending)
                  ELSE LET sub == processDirectory(tree, root, itemPath,
                                                   variables, ascending)
                       IN  IF sub.ok
                           THEN WalkItems(sub.tree, root, d, Tail(items),
                                          variables, ascending)
                           ELSE sub
             ELSE WalkItems(processFile(tree, root, itemPath, variables),
                            root, d, Tail(items), variables, ascending)

\* processTemplateFiles: the walk from the root; an error that escapes the
\* walk (the root cannot be listed) is caught and turned into false, with
\* whatever the walk had done by then left in place
processTemplateFiles(t, root, variables, ascending) ==
    IF t.kind = "dir" /\ t.listable
    THEN LET w == processDirectory(t.entries, root, <<>>, variables, ascending)
         IN  [ok |-> w.ok, fs |-> [t EXCEPT !.entries = w.tree]]
    ELSE [ok |-> FALSE, fs |-> t]

----------------------------------------------------------------------------
(* create.js: determineTemplate, processTemplate. *)

\* the keys of determineTemplate's templates array, in its order
Templates ==
    <<"portfolio", "ecom", "dashboard", "webapp">>

TemplateKeys ==
    {Templates[i] : i \in 1..Len(Templates)}

\* determineTemplate that takes the last flag set of the list, and the
\* default of the list without asking when none is set
determineTemplate_NoPrompt(opts) ==
    LET set == {i \in 1..Len(Templates) : opts[Templates[i]]}
    IN  IF set # {}
        THEN [prompt |-> FALSE,
              key |-> Templates[CHOOSE i \in set : \A j \in set : i >= j]]
        ELSE [prompt |-> FALSE, key |-> Templates[1]]

\* determineTemplate that takes the last flag set of the list, and prompts
\* when none is set
determineTemplate_LastFlag(opts) ==
    LET set == {i \in 1..Len(Templates) : opts[Templates[i]]}
    IN  IF set # {}
        THEN [prompt |-> FALSE,
              key |-> Templates[CHOOSE i \in set : \A j \in set : i >= j]]
        ELSE [prompt |-> TRUE, key |-> "none"]

\* determineTemplate up to the prompt: templates.find(t => options[t.key]);
\* with no flag set the prompt is needed
determineTemplate(opts) ==
    LET set == {i \in 1..Len(Templates) : opts[Templates[i]]}
    IN  IF set # {}
        THEN [prompt |-> FALSE,
              key |-> Templates[CHOOSE i \in set : \A j \in set : i <= j]]
        ELSE [prompt |-> TRUE, key |-> "none"]

\* validate-npm-package-name's validForNewPackages on the names of the
\* model: "My Site" has capital letters and a space
ValidForNewPackages(name) ==
    name \in {<<"my-site">>, <<"app">>}

\* the variables createApp passes on: {projectName, templateType,
\* ...options}.  Commander defines git and install always and the other
\* options only when their flag was given.
VariableMap(name, type, opts) ==
    LET given == {k \in TemplateKeys \cup {"typescript", "tailwind", "verbose"} :
                     opts[k]}
        keys == {"projectName", "templateType", "git", "install"} \cup given
    IN  [k \in keys |->
            IF k = "projectName" THEN name
            ELSE IF k = "templateType" THEN <<type>>
            ELSE IF opts[k] THEN <<"true">> ELSE <<"false">>]

\* the scripts of the manifest processTemplate synthesises
BaselineScripts ==
    ("dev" :> <<"next dev">>) @@ ("build" :> <<"next build">>) @@
    ("start" :> <<"next start">>) @@ ("lint" :> <<"next lint">>)

\* SynthManifest that gives the name alone
SynthManifest_NameOnly(name) ==
    [NoJson EXCEPT !.tag = "object",
                   !.keys = {"name"},
                   !.name = name]

\* the manifest processTemplate synthesises when package.json cannot be read
SynthManifest(name) ==
    [NoJson EXCEPT !.tag = "object",
                   !.keys = {"name", "version", "private", "scripts"},
                   !.name = name,
                   !.version = "0.1.0",
                   !.scripts = BaselineScripts]

TypeScriptDeps ==
    ("typescript" :> "^5.0.0") @@ ("@types/node" :> "^20.0.0") @@
    ("@types/react" :> "^18.0.0") @@ ("@types/react-dom" :> "^18.0.0")

TailwindDeps ==
    ("tailwindcss" :> "^3.3.0") @@ ("postcss" :> "^8.4.0") @@
    ("autoprefixer" :> "^10.4.0")

\* MergeDev that replaces the mapping by the flag's entries
MergeDev_Replace(doc, deps) ==
    [doc EXCEPT !.keys = @ \cup {"devDependencies"},
                !.devDependencies = deps]

\* {...doc.devDependencies, ...deps}
MergeDev(doc, deps) ==
    [doc EXCEPT !.keys = @ \cup {"devDependencies"},
                !.devDependencies = deps @@ @]

\* fs.readJson(package.json): "throws" when the file is missing, is not a
\* file or does not parse
ReadPackageJson(t) ==
    IF t.kind = "dir" /\ IsFile(t.entries, <<PackageJson>>)
       /\ t.entries[<<PackageJson>>].json.tag # "none"
    THEN t.entries[<<PackageJson>>].json
    ELSE NoJson

\* PatchManifest that resets the scripts to the baseline
PatchManifest_ResetScripts(read, variables) ==
    LET base == IF read.tag = "none"
                THEN SynthManifest(variables["projectName"])
                ELSE read
        named == [base EXCEPT !.keys = @ \cup {"name", "scripts"},
                              !.name = variables["projectName"],
                              !.scripts = BaselineScripts]
        ts == IF "typescript" \in DOMAIN variables
              THEN MergeDev(named, TypeScriptDeps) ELSE named
    IN  IF "tailwind" \in DOMAIN variables
        THEN MergeDev(ts, TailwindDeps) ELSE ts

\* PatchManifest that adds the baseline scripts the manifest lacks
PatchManifest_AddsBaseline(read, variables) ==
    LET base == IF read.tag = "none"
                THEN SynthManifest(variables["projectName"])
                ELSE read
        named == [base EXCEPT !.keys = @ \cup {"name", "scripts"},
                              !.name = variables["projectName"],
                              !.scripts = @ @@ BaselineScripts]
        ts == IF "typescript" \in DOMAIN variables
              THEN MergeDev(named, TypeScriptDeps) ELSE named
    IN  IF "tailwind" \in DOMAIN variables
        THEN MergeDev(ts, TailwindDeps) ELSE ts

\* the manifest as processTemplate patches it before writing
PatchManifest(read, variables) ==
    LET base == IF read.tag = "none"
                THEN SynthManifest(variables["projectName"])
                ELSE read
        named == [base EXCEPT !.keys = @ \cup {"name"},
                              !.name = variables["projectName"]]
        ts == IF "typescript" \in DOMAIN variables
              THEN MergeDev(named, TypeScriptDeps) ELSE named
    IN  IF "tailwind" \in DOMAIN variables
        THEN MergeDev(ts, TailwindDeps) ELSE ts

\* writeJsonFile(package.json, data): an error is caught and turned into
\* false
writeJsonFile(t, doc) ==
    IF CanWrite(t) /\ ~IsDir(t.entries, <<PackageJson>>)
    THEN [ok |-> TRUE,
          fs |-> [t EXCEPT !.entries =
                      (<<PackageJson>> :> JsonFile(doc)) @@ @]]
    ELSE [ok |-> FALSE, fs |-> t]

\* processTemplate: read or synthesise the manifest, patch it, write it,
\* then substitute the variables in the tree.  A manifest that parses to
\* null makes "packageJson.name = ..." throw a TypeError before anything is
\* written.
processTemplate(t, root, variables, ascending) ==
    LET read == ReadPackageJson(t)
    IN  IF read.tag = "null"
        THEN [threw |-> TRUE, wrote |-> "none", substituted |-> "none",
              fs |-> t]
        ELSE LET w == writeJsonFile(t, PatchManifest(read, variables))
                 s == processTemplateFiles(w.fs, root, variables, ascending)
             IN  [threw |-> FALSE,
                  wrote |-> IF w.ok THEN "true" ELSE "false",
                  substituted |-> IF s.ok THEN "true" ELSE "false",
                  fs |-> s.fs]

----------------------------------------------------------------------------
(* The inputs of a run. *)

ProjectNames ==
    {<<"my-site">>, <<"My Site">>}

\* commander's options: a template or feature flag is TRUE when given;
\* git and install are FALSE under --no-git and --no-install; verbose also
\* stands for a DEBUG environment variable
OptionSets ==
    [portfolio : BOOLEAN, ecom : BOOLEAN, dashboard : BOOLEAN,
     webapp : BOOLEAN, typescript : BOOLEAN, tailwind : BOOLEAN,
     git : BOOLEAN, install : BOOLEAN, verbose : BOOLEAN]

\* the options of the runs of the whole pipeline: at most one template
\* flag (what determineTemplate does with several is checked on its own,
\* under SpecTemplate)
PipelineOptions ==
    {o \in OptionSets :
        Cardinality({k \in {"portfolio", "ecom", "dashboard", "webapp"} :
                        o[k]}) <= 1}

Layouts ==
    {"checkout", "dependency"}

Missing ==
    [kind |-> "missing", tree |-> EmptyTree]

OnDisk(tree) ==
    [kind |-> "dir", tree |-> tree]

\* a template manifest with a script of its own and a placeholder
TemplateManifest ==
    [NoJson EXCEPT !.tag = "object",
                   !.keys = {"name", "version", "description", "scripts",
                             "devDependencies"},
                   !.name = <<"{{", "projectName", "}}">>,
                   !.version = "1.0.0",
                   !.description = <<"{{", "projectName", "}}", " by ",
                                     "{{", "author", "}}">>,
                   !.scripts = ("dev" :> <<"next dev -p 4000">>) @@
                               ("test" :> <<"jest">>),
                   !.devDependencies = ("eslint" :> "^8.0.0")]

\* a template as the repository ships them, with entries the copy excludes
FullTemplate ==
    (<<PackageJson>> :> JsonFile(TemplateManifest)) @@
    (<<ReadmeMd>> :> TextFile(<<"# ", "{{", "projectName", "}}">>)) @@
    (<<SrcDir>> :> Dir) @@
    (<<SrcDir, IndexTemplate>> :>
        TextFile(<<"{{", "projectName", "}}", " ", "{{", "author", "}}">>)) @@
    (<<LogoPng>> :> TextFile(<<"{{", "projectName", "}}">>)) @@
    (<<NodeModules>> :> Dir) @@
    (<<NodeModules, IndexJs>> :> TextFile(<<"x">>)) @@
    (<<Gitignore>> :> TextFile(<<"node_modules">>)) @@
    (<<PackageLock>> :> TextFile(<<"x">>))

\* a template without a manifest
BareTemplate ==
    (<<ReadmeMd>> :> TextFile(<<"# ", "{{", "projectName", "}}">>))

\* a template whose manifest does not parse
BrokenTemplate ==
    (<<PackageJson>> :> TextFile(<<"{{", "projectName", "}}">>)) @@
    (<<ReadmeMd>> :> TextFile(<<"# ", "{{", "templateType", "}}">>))

\* a template whose manifest is the JSON text "null"
NullTemplate ==
    (<<PackageJson>> :> JsonFile(JsonNull)) @@
    (<<ReadmeMd>> :> TextFile(<<"# ", "{{", "projectName", "}}">>))

\* what templates/<templateType> can hold on disk in a run of createApp
TemplateDisks ==
    {Missing, OnDisk(FullTemplate), OnDisk(BareTemplate),
     OnDisk(BrokenTemplate), OnDisk(NullTemplate)}

NoResults ==
    [ensureDirectory |-> "none", copyFiles |-> "none",
     writeJsonFile |-> "none", processTemplateFiles |-> "none",
     installDependencies |-> "none", checkGitConfig |-> "none",
     initializeGit |-> "none", remove |-> "none",
     createBasicTemplate |-> "none"]

BoolText(b) ==
    IF b THEN "true" ELSE "false"

----------------------------------------------------------------------------
(* createApp, one action per awaited step. *)

Init ==
    /\ projectName \in ProjectNames
    /\ options \in PipelineOptions
    /\ layout \in Layouts
    /\ templateDisk \in TemplateDisks
    /\ target0 \in InitialTargets
    /\ target = target0
    /\ pc = "validate"
    /\ templateType = "none"
    /\ prompted = FALSE
    /\ dirCheck = [exists |-> FALSE, isEmpty |-> TRUE]
    /\ thrown = FALSE
    /\ exitCode = "none"
    /\ steps = <<>>
    /\ commands = <<>>
    /\ results = NoResults
    /\ processed = target0
    /\ atInstall = target0

\* the commands checkEnvironment runs
EnvironmentProbes ==
    <<"npm --version", "yarn --version", "git --version">>

\* ValidateName that only warns about an invalid name
ValidateName_NoExit ==
    /\ pc = "validate"
    /\ commands' = IF options.verbose THEN commands \o EnvironmentProbes
                   ELSE commands
    /\ steps' = Append(steps, "validate")
    /\ pc' = "template"
    /\ exitCode' = exitCode
    /\ UNCHANGED <<projectName, options, layout, templateDisk, target0,
                   target, templateType, prompted, dirCheck, thrown, results,
                   processed, atInstall>>

\* createApp, lines 428-447: the optional environment check, then the name
\* validation; an invalid name ends the process with code 1
ValidateName ==
    /\ pc = "validate"
    /\ commands' = IF options.verbose THEN commands \o EnvironmentProbes
                   ELSE commands
    /\ steps' = Append(steps, "validate")
    /\ IF ValidForNewPackages(projectName)
       THEN /\ pc' = "template"
            /\ exitCode' = exitCode
       ELSE /\ pc' = "exited"
            /\ exitCode' = "1"
    /\ UNCHANGED <<projectName, options, layout, templateDisk, target0,
                   target, templateType, prompted, dirCheck, thrown, results,
                   processed, atInstall>>

\* createApp, line 450, with determineTemplate up to its prompt
DetermineTemplate ==
    /\ pc = "template"
    /\ LET d == determineTemplate(options)
       IN  IF d.prompt
           THEN /\ pc' = "prompt"
                /\ prompted' = TRUE
                /\ UNCHANGED <<templateType, steps>>
           ELSE /\ pc' = "checkDir"
                /\ templateType' = d.key
                /\ steps' = Append(steps, "template")
                /\ UNCHANGED prompted
    /\ UNCHANGED <<projectName, options, layout, templateDisk, target0,
                   target, dirCheck, thrown, exitCode, commands, results,
                   processed, atInstall>>

\* determineTemplate, lines 578-590: the user picks one of the list's choices
AnswerPrompt ==
    /\ pc = "prompt"
    /\ \E t \in TemplateKeys : templateType' = t
    /\ pc' = "checkDir"
    /\ steps' = Append(steps, "template")
    /\ UNCHANGED <<projectName, options, layout, templateDisk, target0,
                   target, prompted, dirCheck, thrown, exitCode, commands,
                   results, processed, atInstall>>

\* createApp, lines 453-462: a target that exists and is not empty ends the
\* process with code 1
CheckTarget ==
    /\ pc = "checkDir"
    /\ dirCheck' = checkDirectory(target)
    /\ steps' = Append(steps, "checkDir")
    /\ IF dirCheck'.exists /\ ~dirCheck'.isEmpty
       THEN /\ pc' = "exited"
            /\ exitCode' = "1"
       ELSE /\ pc' = "ensureDir"
            /\ exitCode' = exitCode
    /\ UNCHANGED <<projectName, options, layout, templateDisk, target0,
                   target, templateType, prompted, thrown, commands, results,
                   processed, atInstall>>

\* createApp, line 469: the result of ensureDirectory is not looked at
EnsureTarget ==
    /\ pc = "ensureDir"
    /\ LET r == ensureDirectory(target)
       IN  /\ target' = r.fs
           /\ results' = [results EXCEPT !.ensureDirectory = BoolText(r.ok)]
    /\ steps' = Append(steps, "ensureDir")
    /\ pc' = "copy"
    /\ UNCHANGED <<projectName, options, layout, templateDisk, target0,
                   templateType, prompted, dirCheck, thrown, exitCode,
                   commands, processed, atInstall>>

\* CopyTemplate that falls back on a bootstrap when copyFiles returns
\* false: a readme and a starter page are written into the target
CopyTemplate_Bootstrap ==
    /\ pc = "copy"
    /\ LET r == copyFiles(templateDisk, TemplatePath(layout, templateType),
                          target, TRUE, "createApp")
           basic == (<<ReadmeMd>> :> TextFile(<<"# ">> \o projectName))
                    @@ (<<PagesDir>> :> Dir)
                    @@ (<<PagesDir, IndexJs>> :> TextFile(<<"export">>))
       IN  /\ target' = IF r.ok \/ ~CanWrite(r.fs) THEN r.fs
                         ELSE [r.fs EXCEPT !.entries = basic @@ @]
           /\ results' = [results EXCEPT !.copyFiles = BoolText(r.ok)]
    /\ steps' = Append(steps, "copy")
    /\ pc' = "process"
    /\ UNCHANGED <<projectName, options, layout, templateDisk, target0,
                   templateType, prompted, dirCheck, thrown, exitCode,
                   commands, processed, atInstall>>

\* CopyTemplate that throws to the catch of createApp when copyFiles
\* returns false
CopyTemplate_Fatal ==
    /\ pc = "copy"
    /\ LET r == copyFiles(templateDisk, TemplatePath(layout, templateType),
                          target, TRUE, "createApp")
       IN  /\ target' = r.fs
           /\ results' = [results EXCEPT !.copyFiles = BoolText(r.ok)]
           /\ thrown' = ~r.ok
           /\ pc' = IF r.ok THEN "process" ELSE "cleanup"
    /\ steps' = Append(steps, "copy")
    /\ UNCHANGED <<projectName, options, layout, templateDisk, target0,
                   templateType, prompted, dirCheck, exitCode, commands,
                   processed, atInstall>>

\* createApp, lines 472-487: the result of copyFiles is not looked at
CopyTemplate ==
    /\ pc = "copy"
    /\ LET r == copyFiles(templateDisk, TemplatePath(layout, templateType),
                          target, TRUE, "createApp")
       IN  /\ target' = r.fs
           /\ results' = [results EXCEPT !.copyFiles = BoolText(r.ok)]
    /\ steps' = Append(steps, "copy")
    /\ pc' = "process"
    /\ UNCHANGED <<projectName, options, layout, templateDisk, target0,
                   templateType, prompted, dirCheck, thrown, exitCode,
                   commands, processed, atInstall>>

\* createApp, lines 490-495: processTemplate; only its TypeError leaves the
\* try block
ProcessTemplate ==
    /\ pc = "process"
    /\ \E ascending \in BOOLEAN :
         LET r == processTemplate(target, ProjectPath(projectName),
                      VariableMap(projectName, templateType, options),
                      ascending)
         IN  /\ target' = r.fs
             /\ processed' = r.fs
             /\ results' = [results EXCEPT
                               !.writeJsonFile = r.wrote,
                               !.processTemplateFiles = r.substituted]
             /\ thrown' = r.threw
             /\ pc' = IF r.threw THEN "cleanup" ELSE "install"
             /\ steps' = IF r.threw THEN steps ELSE Append(steps, "process")
    /\ UNCHANGED <<projectName, options, layout, templateDisk, target0,
                   templateType, prompted, dirCheck, exitCode, commands,
                   atInstall>>

----------------------------------------------------------------------------
(* gitUtils.js: initializeGit, and create.js: setupGit. *)

\* the commands of initializeGit and setupGit, as the log names them
GitVersion == "git --version"
GitConfigName == "git config --global user.name"
GitConfigEmail == "git config --global user.email"
GitInit == "git init --initial-branch=main"
GitAdd == "git add ."
GitCommit == "git commit"

\* the git commands that act on the target directory
RepositoryCommands ==
    {GitInit, GitAdd, GitCommit}

\* createGitignore: write .gitignore at the root; an error is caught
createGitignore(t) ==
    IF CanWrite(t) /\ ~IsDir(t.entries, <<Gitignore>>)
    THEN [t EXCEPT !.entries =
             (<<Gitignore>> :> TextFile(<<"node_modules", "/">>)) @@ @]
    ELSE t

\* "git init" in the target directory
AfterGitInit(t) ==
    [t EXCEPT !.entries = (<<DotGit>> :> Dir) @@ @]

\* the name under .git the staged entries are kept below
GitIndex == <<"index">>

\* the path is matched by the .gitignore of the directory: a node_modules
\* segment, when the file createGitignore writes is there
IgnoredByGit(t, p) ==
    /\ IsFile(t.entries, <<Gitignore>>)
    /\ Includes(t.entries[<<Gitignore>>].text, "node_modules")
    /\ \E i \in 1..Len(p) : p[i] = NodeModules

\* what "git add ." stages: everything outside .git that .gitignore does
\* not match
Staged(t) ==
    {p \in DOMAIN t.entries : p[1] # DotGit /\ ~IgnoredByGit(t, p)}

\* "git add ." in the target directory: the staged entries are recorded
\* below .git/index
AfterGitAdd(t) ==
    LET index == [q \in {<<DotGit, GitIndex>> \o p : p \in Staged(t)} |->
                     t.entries[SubSeq(q, 3, Len(q))]]
    IN  [t EXCEPT !.entries =
            index @@ (<<DotGit, GitIndex>> :> Dir) @@ @]

\* the options setupGit calls initializeGit with, addGitignore left at its
\* default
SetupGitOptions ==
    [addGitignore |-> TRUE, createInitialCommit |-> TRUE]

\* initializeGit(dirPath, options).  available: "git --version" succeeds.
\* failAt: the git command that fails, "none" when all succeed.  Every
\* error is caught and turned into false; what createGitignore returns is
\* not looked at.
initializeGit(t, available, failAt, opts) ==
    IF ~available
    THEN [ret |-> "false", fs |-> t, commands |-> <<GitVersion>>]
    ELSE IF PathExists(t, <<DotGit>>)
    THEN [ret |-> "true", fs |-> t, commands |-> <<GitVersion>>]
    ELSE IF failAt = "init" \/ ~CanWrite(t)
    THEN [ret |-> "false", fs |-> t, commands |-> <<GitVersion, GitInit>>]
    ELSE LET ignored == IF opts.addGitignore
                        THEN createGitignore(AfterGitInit(t))
                        ELSE AfterGitInit(t)
         IN  IF ~opts.createInitialCommit
             THEN [ret |-> "true", fs |-> ignored,
                   commands |-> <<GitVersion, GitInit>>]
             ELSE IF failAt = "add"
             THEN [ret |-> "false", fs |-> ignored,
                   commands |-> <<GitVersion, GitInit, GitAdd>>]
             ELSE [ret |-> BoolText(failAt # "commit"),
                   fs |-> AfterGitAdd(ignored),
                   commands |-> <<GitVersion, GitInit, GitAdd, GitCommit>>]

\* setupGit: without git nothing is done; an incomplete user configuration
\* is only warned about; the result of initializeGit is not looked at
setupGit(t, available, failAt) ==
    IF ~available
    THEN [ret |-> "none", fs |-> t, commands |-> <<GitVersion>>]
    ELSE LET g == initializeGit(t, available, failAt, SetupGitOptions)
         IN  [g EXCEPT !.commands =
                 <<GitVersion, GitConfigName, GitConfigEmail>> \o @]

\* checkGitConfig as setupGit reads it: both the user name and the user
\* email are set
checkGitConfig(available, configured) ==
    IF ~available THEN "none" ELSE IF configured THEN "complete"
    ELSE "incomplete"

\* the ways the git commands can go in target t
GitOutcomes(t) ==
    {o \in [available : BOOLEAN, configured : BOOLEAN,
             failAt : {"none", "init", "add", "commit"}] :
        /\ ~o.available => (o.failAt = "none" /\ ~o.configured)
        /\ (o.available /\ PathExists(t, <<DotGit>>)) => o.failAt = "none"
        /\ (o.available /\ ~PathExists(t, <<DotGit>>) /\ ~CanWrite(t))
              => o.failAt = "init"}

----------------------------------------------------------------------------
(* create.js: installDependencies. *)

\* the install command: "npm install" or "yarn install", whichever package
\* manager detectPackageManager finds; the log does not tell them apart
InstallCommand == "install"

\* the ways the install process can go in target t: it succeeds, fails, or
\* fails after it has written part of node_modules
InstallOutcomes(t) ==
    {o \in {"ok", "fail", "partial"} : o # "fail" => CanWrite(t)}

\* installDependencies: run the install command in the target directory;
\* a failure is thrown
installDependencies(t, o) ==
    LET modules == (<<NodeModules>> :> Dir)
    IN  IF o = "ok"
        THEN [threw |-> FALSE, command |-> InstallCommand,
              fs |-> [t EXCEPT !.entries =
                         modules @@ (<<PackageLock>> :> TextFile(<<"x">>))
                         @@ @]]
        ELSE IF o = "partial"
        THEN [threw |-> TRUE, command |-> InstallCommand,
              fs |-> [t EXCEPT !.entries = modules @@ @]]
        ELSE [threw |-> TRUE, command |-> InstallCommand, fs |-> t]

----------------------------------------------------------------------------
(* createApp, continued. *)

\* InstallStep without the try block around installDependencies: what it
\* throws reaches the catch of createApp
InstallStep_Fatal ==
    /\ pc = "install"
    /\ IF options.install
       THEN \E o \in InstallOutcomes(target) :
              LET r == installDependencies(target, o)
              IN  /\ atInstall' = target
                  /\ target' = r.fs
                  /\ commands' = Append(commands, r.command)
                  /\ results' = [results EXCEPT !.installDependencies =
                                    IF r.threw THEN "threw" ELSE "resolved"]
                  /\ steps' = Append(steps, "install")
                  /\ thrown' = r.threw
                  /\ pc' = IF r.threw THEN "cleanup" ELSE "git"
       ELSE /\ UNCHANGED <<atInstall, target, commands, results, steps,
                           thrown>>
            /\ pc' = "git"
    /\ UNCHANGED <<projectName, options, layout, templateDisk, target0,
                   templateType, prompted, dirCheck, exitCode, processed>>

\* InstallStep that is not awaited behind processTemplate: the install
\* process can start while the manifest is not yet written
InstallStep_NotAwaited ==
    /\ pc \in {"process", "install"}
    /\ ~Includes(steps, "install")
    /\ IF options.install
       THEN \E o \in InstallOutcomes(target) :
              LET r == installDependencies(target, o)
              IN  /\ atInstall' = target
                  /\ target' = r.fs
                  /\ commands' = Append(commands, r.command)
                  /\ results' = [results EXCEPT !.installDependencies =
                                    IF r.threw THEN "threw" ELSE "resolved"]
                  /\ steps' = Append(steps, "install")
       ELSE UNCHANGED <<atInstall, target, commands, results, steps>>
    /\ pc' = IF pc = "install" THEN "git" ELSE pc
    /\ UNCHANGED <<projectName, options, layout, templateDisk, target0,
                   templateType, prompted, dirCheck, thrown, exitCode,
                   processed>>

\* createApp, lines 497-515: unless --no-install, installDependencies; what
\* it throws is caught and warned about
InstallStep ==
    /\ pc = "install"
    /\ IF options.install
       THEN \E o \in InstallOutcomes(target) :
              LET r == installDependencies(target, o)
              IN  /\ atInstall' = target
                  /\ target' = r.fs
                  /\ commands' = Append(commands, r.command)
                  /\ results' = [results EXCEPT !.installDependencies =
                                    IF r.threw THEN "threw" ELSE "resolved"]
                  /\ steps' = Append(steps, "install")
       ELSE UNCHANGED <<atInstall, target, commands, results, steps>>
    /\ pc' = "git"
    /\ UNCHANGED <<projectName, options, layout, templateDisk, target0,
                   templateType, prompted, dirCheck, thrown, exitCode,
                   processed>>

\* GitStep that treats a false result of initializeGit as an error of
\* createApp
GitStep_Fatal ==
    /\ pc = "git"
    /\ IF options.git
       THEN \E o \in GitOutcomes(target) :
              LET r == setupGit(target, o.available, o.failAt)
              IN  /\ target' = r.fs
                  /\ commands' = commands \o r.commands
                  /\ results' = [results EXCEPT
                                    !.initializeGit = r.ret,
                                    !.checkGitConfig =
                                        checkGitConfig(o.available,
                                                       o.configured)]
                  /\ steps' = Append(steps, "git")
                  /\ thrown' = (r.ret = "false")
                  /\ pc' = IF r.ret = "false" THEN "cleanup" ELSE "succeed"
       ELSE /\ UNCHANGED <<target, commands, results, steps, thrown>>
            /\ pc' = "succeed"
    /\ UNCHANGED <<projectName, options, layout, templateDisk, target0,
                   templateType, prompted, dirCheck, exitCode, processed,
                   atInstall>>

\* GitStep that does not look at options.git
GitStep_IgnoresFlag ==
    /\ pc = "git"
    /\ \E o \in GitOutcomes(target) :
         LET r == setupGit(target, o.available, o.failAt)
         IN  /\ target' = r.fs
             /\ commands' = commands \o r.commands
             /\ results' = [results EXCEPT
                               !.initializeGit = r.ret,
                               !.checkGitConfig =
                                   checkGitConfig(o.available, o.configured)]
             /\ steps' = Append(steps, "git")
    /\ pc' = "succeed"
    /\ UNCHANGED <<projectName, options, layout, templateDisk, target0,
                   templateType, prompted, dirCheck, thrown, exitCode,
                   processed, atInstall>>

\* createApp, lines 517-521: unless --no-git, setupGit, which throws nothing
GitStep ==
    /\ pc = "git"
    /\ IF options.git
       THEN \E o \in GitOutcomes(target) :
              LET r == setupGit(target, o.available, o.failAt)
              IN  /\ target' = r.fs
                  /\ commands' = commands \o r.commands
                  /\ results' = [results EXCEPT
                                    !.initializeGit = r.ret,
                                    !.checkGitConfig =
                                        checkGitConfig(o.available,
                                                       o.configured)]
                  /\ steps' = Append(steps, "git")
       ELSE UNCHANGED <<target, commands, results, steps>>
    /\ pc' = "succeed"
    /\ UNCHANGED <<projectName, options, layout, templateDisk, target0,
                   templateType, prompted, dirCheck, thrown, exitCode,
                   processed, atInstall>>

\* createApp, lines 523-526, and the CLI action's normal return: the
\* process ends with code 0
Finish ==
    /\ pc = "succeed"
    /\ pc' = "done"
    /\ exitCode' = "0"
    /\ steps' = Append(steps, "succeed")
    /\ UNCHANGED <<projectName, options, layout, templateDisk, target0,
                   target, templateType, prompted, dirCheck, thrown, commands,
                   results, processed, atInstall>>

\* createApp, lines 527-540, and the CLI action's catch (part_003, lines
\* 31-36): the target is removed if it can be, the error is thrown again
\* and the process ends with code 1
Cleanup ==
    /\ pc = "cleanup"
    /\ \E removed \in BOOLEAN :
         /\ target' = IF removed
                      THEN Target("absent", FALSE, TRUE, EmptyTree)
                      ELSE target
         /\ results' = [results EXCEPT !.remove = BoolText(removed)]
    /\ pc' = "exited"
    /\ exitCode' = "1"
    /\ steps' = Append(steps, "cleanup")
    /\ UNCHANGED <<projectName, options, layout, templateDisk, target0,
                   templateType, prompted, dirCheck, thrown, commands,
                   processed, atInstall>>

Next ==
    \/ ValidateName
    \/ DetermineTemplate
    \/ AnswerPrompt
    \/ CheckTarget
    \/ EnsureTarget
    \/ CopyTemplate
    \/ ProcessTemplate
    \/ InstallStep
    \/ GitStep
    \/ Finish
    \/ Cleanup

Spec ==
    Init /\ [][Next]_vars

----------------------------------------------------------------------------
(* The copy step of createApp on every generated template tree: a run that *)
(* has validated the name, chosen a template and checked and created the   *)
(* target, and now copies.                                                 *)

DefaultOptions ==
    [portfolio |-> TRUE, ecom |-> FALSE, dashboard |-> FALSE,
     webapp |-> FALSE, typescript |-> FALSE, tailwind |-> FALSE,
     git |-> TRUE, install |-> TRUE, verbose |-> FALSE]

InitCopy ==
    /\ projectName = <<"my-site">>
    /\ options = DefaultOptions
    /\ templateDisk \in {OnDisk(t) : t \in TreesUpTo(MaxEntries)}
    /\ layout \in Layouts
    /\ target0 = Target("dir", TRUE, TRUE, EmptyTree)
    /\ target = target0
    /\ pc = "copy"
    /\ templateType = "portfolio"
    /\ prompted = FALSE
    /\ dirCheck = checkDirectory(target0)
    /\ thrown = FALSE
    /\ exitCode = "none"
    /\ steps = <<"validate", "template", "checkDir", "ensureDir">>
    /\ commands = <<>>
    /\ results = [NoResults EXCEPT !.ensureDirectory = "true"]
    /\ processed = target0
    /\ atInstall = target0

NextCopy ==
    CopyTemplate

SpecCopy ==
    InitCopy /\ [][NextCopy]_vars

----------------------------------------------------------------------------
(* The template choice of createApp on every combination of options: a run *)
(* up to the target check.                                                 *)

InitTemplate ==
    /\ projectName \in ProjectNames
    /\ options \in OptionSets
    /\ layout = "checkout"
    /\ templateDisk = OnDisk(BareTemplate)
    /\ target0 = Target("absent", FALSE, TRUE, EmptyTree)
    /\ target = target0
    /\ pc = "validate"
    /\ templateType = "none"
    /\ prompted = FALSE
    /\ dirCheck = [exists |-> FALSE, isEmpty |-> TRUE]
    /\ thrown = FALSE
    /\ exitCode = "none"
    /\ steps = <<>>
    /\ commands = <<>>
    /\ results = NoResults
    /\ processed = target0
    /\ atInstall = target0

NextTemplate ==
    \/ ValidateName
    \/ DetermineTemplate
    \/ AnswerPrompt

SpecTemplate ==
    InitTemplate /\ [][NextTemplate]_vars

----------------------------------------------------------------------------
(* Vocabulary of the properties. *)

\* the run has ended
Ended ==
    pc \in {"done", "exited"}

\* the step has been completed
Did(step) ==
    Includes(steps, step)

\* the command has been run
Ran(command) ==
    Includes(commands, command)

\* the entries of tree a that tree b holds unchanged
KeptIn(a, b) ==
    {p \in DOMAIN a : p \in DOMAIN b /\ b[p] = a[p]}

\* the paths the run has added to the target
Added ==
    DOMAIN target.entries \ DOMAIN target0.entries

\* the target was a directory with something in it before the run
NonEmptyBefore ==
    target0.kind = "dir" /\ DOMAIN target0.entries # {}

\* the template flags given on the command line
FlagsGiven ==
    {k \in TemplateKeys : options[k]}

----------------------------------------------------------------------------
(* C1 *)

\* C1: if the target path exists and is a non-empty directory, createApp
\* ends with exit code 1 before the copy, the manifest write or the
\* substitution starts, and nothing under the target is created or changed.
C1_NonEmptyTargetFailsUntouched ==
    NonEmptyBefore =>
        /\ target = target0
        /\ ~Did("ensureDir") /\ ~Did("copy") /\ ~Did("process")
        /\ Ended => exitCode = "1"

----------------------------------------------------------------------------
(* C2 *)

\* C2: a project name that fails the package-name validation ends the run
\* with exit code 1 before any file system mutation: the target is as it
\* was, and no template prompt, copy, install or git step is reached.
C2_InvalidNameExitsBeforeMutation ==
    ~ValidForNewPackages(projectName) =>
        /\ target = target0
        /\ ~prompted /\ templateType = "none"
        /\ results = NoResults
        /\ ~Ran(InstallCommand)
        /\ \A c \in RepositoryCommands \cup {GitConfigName, GitConfigEmail} :
              ~Ran(c)
        /\ pc \in {"validate", "exited"}
        /\ pc = "exited" => (exitCode = "1" /\ steps = <<"validate">>)

C2_Witness ==
    /\ ~ValidForNewPackages(projectName)
    /\ pc = "exited"
    /\ exitCode = "1"
    /\ target0.kind = "absent"

----------------------------------------------------------------------------
(* C3 *)

\* C3: whenever copying the template or substituting the variables fails in
\* createApp, the cleanup transition is taken: the run ends with exit code 1
\* after the cleanup, never with success.
C3_CopyOrSubstituteFailureCleansUp ==
    (results.copyFiles = "false" \/ results.processTemplateFiles = "false") =>
        /\ pc \notin {"install", "git", "succeed", "done"}
        /\ Ended => (exitCode = "1" /\ Did("cleanup"))

----------------------------------------------------------------------------
(* C4 *)

\* C4: if the install step fails, the failure is only warned about: no
\* cleanup is taken, everything the copy and the substitution put into the
\* target is still there unchanged, the run goes on to the git step and to
\* Done, and the exit code is 0.
C4_InstallFailureIsWarning ==
    results.installDependencies = "threw" =>
        /\ pc \in {"git", "succeed", "done"}
        /\ ~thrown /\ ~Did("cleanup")
        /\ target.kind = processed.kind
        /\ KeptIn(processed.entries, target.entries) = DOMAIN processed.entries
        /\ pc = "done" => exitCode = "0"
        /\ (pc = "git" \/ ~options.git) => ~Did("git")
        /\ (pc # "git" /\ options.git) => Did("git")

C4_Witness ==
    /\ results.installDependencies = "threw"
    /\ pc = "done"
    /\ exitCode = "0"
    /\ Did("git")
    /\ IsFile(target.entries, <<ReadmeMd>>)
    /\ IsFile(target.entries, <<PackageJson>>)

----------------------------------------------------------------------------
(* C5 *)

----------------------------------------------------------------------------
(* C6 *)

\* the steps of createApp in the order of its code
StepOrder ==
    <<"validate", "template", "checkDir", "ensureDir", "copy", "process",
      "install", "git", "succeed", "cleanup">>

\* the steps completed so far follow the order of the code, none twice
InStepOrder ==
    \A i \in 1..Len(steps) - 1 :
        IndexOf(StepOrder, steps[i]) < IndexOf(StepOrder, steps[i + 1])

\* C6: a run that reaches Done has done, in this order and one after the
\* other, the name validation, the template choice, the target check, the
\* copy, the manifest patch and substitution, the install unless
\* --no-install and the git initialisation unless --no-git; and whenever an
\* install process starts, the manifest write has been done before, so that
\* a manifest that could be written is in the target, patched, at that time.
C6_StepsInOrder ==
    /\ InStepOrder
    /\ \A i \in 1..Len(steps) : IndexOf(StepOrder, steps[i]) > 0
    /\ pc = "done" =>
          /\ \A s \in {"validate", "template", "checkDir", "copy", "process"} :
                Did(s)
          /\ Did("install") <=> options.install
          /\ Did("git") <=> options.git
    /\ Ran(InstallCommand) =>
          /\ Did("process")
          /\ results.writeJsonFile # "none"
          /\ atInstall = processed
          /\ results.writeJsonFile = "true" =>
                /\ IsFile(atInstall.entries, <<PackageJson>>)
                /\ atInstall.entries[<<PackageJson>>].json.tag = "object"
                /\ atInstall.entries[<<PackageJson>>].json.name = projectName

C6_Witness ==
    /\ pc = "done"
    /\ options.install /\ options.git
    /\ results.installDependencies = "resolved"
    /\ results.initializeGit = "true"
    /\ results.writeJsonFile = "true"
    /\ steps = <<"validate", "template", "checkDir", "ensureDir", "copy",
                 "process", "install", "git", "succeed">>

----------------------------------------------------------------------------
(* C7 *)

\* C7: whatever fails in the version-control step (git absent, the user
\* configuration incomplete, the target already a repository, a failing git
\* init, add or commit), the failure is
\* absorbed: no cleanup is taken, the target directory is not removed and
\* keeps what the earlier steps put there, and the exit code is 0.
C7_GitFailureAbsorbed ==
    Did("git") =>
        /\ pc \in {"succeed", "done"}
        /\ ~thrown /\ ~Did("cleanup")
        /\ results.remove = "none"
        /\ target.kind = processed.kind
        /\ DOMAIN processed.entries \subseteq DOMAIN target.entries
        /\ pc = "done" => exitCode = "0"

C7_Witness ==
    /\ Did("git")
    /\ results.initializeGit = "false"
    /\ results.checkGitConfig = "incomplete"
    /\ Ran(GitCommit)
    /\ pc = "done"
    /\ exitCode = "0"
    /\ IsFile(target.entries, <<PackageJson>>)

----------------------------------------------------------------------------
(* C8 *)

\* every git command the log can hold
GitCommands ==
    RepositoryCommands \cup {GitVersion, GitConfigName, GitConfigEmail}

\* C8 as stated: with --no-install no install process is started; with
\* --no-git no git command at all is run and no .gitignore is written; and
\* the run then ends in Done with exit code 0.
C8_SkipsRunNothing ==
    /\ ~options.install => ~Ran(InstallCommand)
    /\ ~options.git =>
          /\ \A c \in GitCommands : ~Ran(c)
          /\ <<Gitignore>> \notin Added
    /\ (~options.install \/ ~options.git) =>
          /\ pc = "done" => exitCode = "0"
          /\ (Ended /\ Did("process")) => pc = "done"

\* C8 amended: with --no-install no install process is started; with
\* --no-git no git command is run in the target, no git configuration is
\* read and no .gitignore or .git is written into the target, the only git
\* command left being the "git --version" probe of checkEnvironment under
\* --verbose or DEBUG; and a run that has got past processTemplate then
\* ends in Done with exit code 0.
C8_SkipsRunOnlyTheProbe ==
    /\ ~options.install =>
          /\ ~Ran(InstallCommand)
          /\ ~Did("install")
          /\ results.installDependencies = "none"
    /\ ~options.git =>
          /\ \A c \in GitCommands \ {GitVersion} : ~Ran(c)
          /\ Ran(GitVersion) => options.verbose
          /\ ~Did("git")
          /\ <<Gitignore>> \notin Added
          /\ <<DotGit>> \notin Added
    /\ (~options.install \/ ~options.git) =>
          /\ pc = "done" => exitCode = "0"
          /\ (Ended /\ Did("process")) => pc = "done"

C8_Witness ==
    /\ ~options.install /\ ~options.git /\ options.verbose
    /\ pc = "done"
    /\ exitCode = "0"
    /\ Ran(GitVersion)
    /\ IsFile(target.entries, <<ReadmeMd>>)

----------------------------------------------------------------------------
(* C9 *)

\* C9: once determineTemplate has returned, if a template flag was given
\* the result is a flag that was given and no prompt was shown; if none was
\* given the prompt was shown and the result is one of the four identifiers.
\* The prompt is never shown when a flag was given.
C9_FlagOrPrompt ==
    /\ prompted => FlagsGiven = {}
    /\ templateType # "none" =>
          /\ templateType \in TemplateKeys
          /\ FlagsGiven # {} => (templateType \in FlagsGiven /\ ~prompted)
          /\ FlagsGiven = {} => prompted
    /\ (pc \notin {"validate", "template", "prompt"}
            /\ ValidForNewPackages(projectName)) => templateType # "none"

C9_Witness ==
    /\ FlagsGiven = {}
    /\ prompted
    /\ templateType = "dashboard"
    /\ pc = "checkDir"

----------------------------------------------------------------------------
(* C10 *)

\* the names the copy of createApp is to leave out
ExcludedNames ==
    {NodeModules, DotGit, PackageLock, YarnLock}

\* the path has a segment that is an excluded name
UnderExcluded(p) ==
    \E i \in 1..Len(p) : p[i] \in ExcludedNames

\* C10: for every source tree, after copyFiles as createApp calls it no
\* path that is an excluded name, or lies under one, has been put into the
\* destination.
C10_NoExcludedPathCopied ==
    results.copyFiles # "none" => \A p \in Added : ~UnderExcluded(p)

C10_Witness ==
    /\ results.copyFiles = "true"
    /\ <<SrcDir, NodeModules, SrcDir>> \in DOMAIN templateDisk.tree
    /\ templateDisk.tree[<<SrcDir, NodeModules, SrcDir>>].type = "file"
    /\ Added = {<<SrcDir>>}

----------------------------------------------------------------------------
(* processTemplateFiles called on its own: on a directory holding          *)
(* generated files, with generated variables, once and then once more.     *)

\* Tokens in the content of a generated file.
MaxLen == 5

\* Entries in a generated tree of several files.
MaxFiles == 2

\* the tokens generated contents are made of: the two braces, a word that
\* is a key of the variables and a word that is not
SubstAlphabet ==
    {"{{", "}}", "projectName", "author"}

\* every content of at most n tokens
ContentsUpTo(n) ==
    UNION {[1..k -> SubstAlphabet] : k \in 0..n}

\* the values the variable projectName takes: a plain name, a word that is
\* itself a key, a placeholder, and the empty string
SubstValues ==
    {<<"my-site">>, <<"projectName">>, <<"{{", "projectName", "}}">>, <<>>}

DoubleTemplate == <<"index", ".template", ".template">>
PagesTemplate == <<"pages", ".template">>

\* the names of the generated trees of several files, in the order the
\* trees are built in
SubstOrder ==
    <<ReadmeMd, IndexJs, IndexTemplate, DoubleTemplate, PagesTemplate,
      NodeModules, LogoPng>>

\* the content of the files of those trees: a placeholder the variables
\* resolve and one they do not
SubstText ==
    <<"# ", "{{", "projectName", "}}", " ", "{{", "author", "}}">>

\* the rank of a name in an order of names
RankIn(order, n) ==
    CHOOSE i \in 1..Len(order) : n = order[i]

RECURSIVE RankBefore(_, _, _)
\* p before q, paths of one length compared name by name
RankBefore(order, p, q) ==
    IF Len(p) = 0 THEN FALSE
    ELSE IF RankIn(order, p[1]) # RankIn(order, q[1])
    THEN RankIn(order, p[1]) < RankIn(order, q[1])
    ELSE RankBefore(order, Tail(p), Tail(q))

\* p before q: shorter paths first
PathBefore(order, p, q) ==
    Len(p) < Len(q) \/ (Len(p) = Len(q) /\ RankBefore(order, p, q))

\* the paths by which tree t can grow by one entry, each after all of t's
ExtensionsIn(t, order) ==
    LET dirs == {d \in {<<>>} \cup DOMAIN t : IsDir(t, d)}
        names == {order[i] : i \in 1..Len(order)}
    IN  {x \in {Append(q, n) : q \in dirs, n \in names} :
            \A y \in DOMAIN t : PathBefore(order, y, x)}

RECURSIVE TreesIn(_, _, _)
\* every tree of exactly k entries over the names, each built once
TreesIn(k, order, entries) ==
    IF k = 0 THEN {EmptyTree}
    ELSE UNION {{t @@ (p :> e) : p \in ExtensionsIn(t, order), e \in entries} :
                   t \in TreesIn(k - 1, order, entries)}

\* the trees processTemplateFiles is called on: one eligible file with any
\* content, or up to MaxFiles entries with the fixed content
SubstTrees(len, files) ==
    {(<<ReadmeMd>> :> TextFile(c)) : c \in ContentsUpTo(len)}
    \cup UNION {TreesIn(k, SubstOrder, {Dir, TextFile(SubstText)}) :
                   k \in 0..files}

\* the dirPath processTemplateFiles is called with
SubstRoot ==
    <<"/", "work", "/", "app">>

\* the variables processTemplateFiles is called with
SubstVariables ==
    VariableMap(projectName, "portfolio", DefaultOptions)

InitSubst ==
    /\ target0 \in {Target("dir", TRUE, TRUE, t) :
                       t \in SubstTrees(MaxLen, MaxFiles)}
    /\ projectName \in SubstValues
    /\ options = DefaultOptions
    /\ layout = "checkout"
    /\ templateDisk = Missing
    /\ target = target0
    /\ pc = "call"
    /\ templateType = "portfolio"
    /\ prompted = FALSE
    /\ dirCheck = checkDirectory(target0)
    /\ thrown = FALSE
    /\ exitCode = "none"
    /\ steps = <<>>
    /\ commands = <<>>
    /\ results = NoResults
    /\ processed = target0
    /\ atInstall = target0

\* processTemplateFiles(dirPath, variables), called a first and a second
\* time on the same directory; processed keeps what the first call left
CallProcessTemplateFiles ==
    /\ pc = "call"
    /\ Len(steps) < 2
    /\ \E ascending \in BOOLEAN :
         LET r == processTemplateFiles(target, SubstRoot, SubstVariables,
                                       ascending)
         IN  /\ target' = r.fs
             /\ processed' = IF Len(steps) = 0 THEN r.fs ELSE processed
             /\ results' = [results EXCEPT
                               !.processTemplateFiles = BoolText(r.ok)]
    /\ steps' = Append(steps, "processTemplateFiles")
    /\ UNCHANGED <<projectName, options, layout, templateDisk, target0, pc,
                   templateType, prompted, dirCheck, thrown, exitCode,
                   commands, atInstall>>

NextSubst ==
    CallProcessTemplateFiles

SpecSubst ==
    InitSubst /\ [][NextSubst]_vars

----------------------------------------------------------------------------
(* C11 *)

\* content holds a placeholder at position i
MatchAt(content, i) ==
    /\ i + 2 <= Len(content)
    /\ content[i] = "{{"
    /\ content[i + 1] \in WordTokens
    /\ content[i + 2] = "}}"

\* content holds at position i a placeholder whose word is a key
ResolvableAt(content, variables, i) ==
    MatchAt(content, i) /\ content[i + 1] \in DOMAIN variables

\* what the substitution rule makes of the token at position i: the value
\* in place of a resolvable placeholder, the token itself anywhere else
Piece(content, variables, i) ==
    IF ResolvableAt(content, variables, i) THEN variables[content[i + 1]]
    ELSE IF \/ (i > 1 /\ ResolvableAt(content, variables, i - 1))
            \/ (i > 2 /\ ResolvableAt(content, variables, i - 2))
    THEN <<>>
    ELSE <<content[i]>>

RECURSIVE Pieces(_, _, _)
\* the pieces from position i on, joined
Pieces(content, variables, i) ==
    IF i > Len(content) THEN <<>>
    ELSE Piece(content, variables, i) \o Pieces(content, variables, i + 1)

\* the content the substitution rule asks for
Substituted(content, variables) ==
    Pieces(content, variables, 1)

\* the content still holds a placeholder the variables resolve
HasResolvable(content, variables) ==
    \E i \in 1..Len(content) : ResolvableAt(content, variables, i)

\* a resolvable placeholder of the content stands between a further pair of
\* braces
Wrapped(content, variables) ==
    \E i \in 2..Len(content) :
        /\ ResolvableAt(content, variables, i)
        /\ content[i - 1] = "{{"
        /\ i + 3 <= Len(content)
        /\ content[i + 3] = "}}"

\* no value of the variables is empty or holds a brace
PlainValues(variables) ==
    \A k \in DOMAIN variables :
        /\ variables[k] # <<>>
        /\ ~Includes(variables[k], "{{")
        /\ ~Includes(variables[k], "}}")

\* the files of the tree the walk visits and leaves where they are: those
\* with a listed extension, not template files, outside node_modules and
\* .git
SubstitutedInPlace(tree) ==
    {p \in DOMAIN tree :
        /\ IsFile(tree, p)
        /\ Extname(Basename(p)) \in fileExtensions
        /\ ~EndsWith(Basename(p), templateSuffix)
        /\ \A n \in 1..(Len(p) - 1) :
              /\ p[n] \notin {NodeModules, DotGit}
              /\ IsDir(tree, SubSeq(p, 1, n))}

----------------------------------------------------------------------------
(* C12 *)

\* the template files of the tree that the walk visits: files whose name
\* ends in the template suffix, outside node_modules and .git
TemplateFiles(tree) ==
    {p \in DOMAIN tree :
        /\ IsFile(tree, p)
        /\ EndsWith(Basename(p), templateSuffix)
        /\ \A n \in 1..(Len(p) - 1) :
              /\ p[n] \notin {NodeModules, DotGit}
              /\ IsDir(tree, SubSeq(p, 1, n))}

\* path p with the template suffix taken off its last name
Stripped(p) ==
    Append(Parent(p), SubSeq(Basename(p), 1, Len(Basename(p)) - 1))

\* C12: after processTemplateFiles, for every file X.template of the tree a
\* file X is in the same directory with the substituted content and
\* X.template is gone; so no file under the root has a name that ends in
\* ".template".
C12_TemplateSuffixStripped ==
    Len(steps) >= 1 =>
        /\ \A p \in TemplateFiles(target0.entries) :
              /\ IsFile(processed.entries, Stripped(p))
              /\ processed.entries[Stripped(p)].text =
                    Substituted(target0.entries[p].text, SubstVariables)
              /\ p \notin DOMAIN processed.entries
        /\ \A q \in DOMAIN processed.entries :
              IsFile(processed.entries, q)
                  => ~EndsWith(Basename(q), templateSuffix)

----------------------------------------------------------------------------
(* C13 *)

\* the variables of the run of createApp
RunVariables ==
    VariableMap(projectName, templateType, options)

\* the file holds a placeholder the variables resolve
EntryHasResolvable(e, variables) ==
    IF e.json.tag = "object"
    THEN \/ HasResolvable(e.json.name, variables)
         \/ HasResolvable(e.json.description, variables)
         \/ \E k \in DOMAIN e.json.scripts :
               HasResolvable(e.json.scripts[k], variables)
    ELSE HasResolvable(e.text, variables)

\* the files of the tree that the walk of processTemplateFiles looks into:
\* those with a listed extension or the template suffix, outside
\* node_modules and .git
Eligible(tree) ==
    SubstitutedInPlace(tree) \cup TemplateFiles(tree)

----------------------------------------------------------------------------
(* processTemplate called on its own: on a directory holding a generated   *)
(* package.json, with each combination of the feature flags, once and      *)
(* then once more.                                                         *)

\* the scripts of the generated manifests: any of two names, each with a
\* plain command or one that holds a placeholder
GenScripts ==
    UNION {[S -> {<<"jest">>, <<"deploy ", "{{", "projectName", "}}">>}] :
              S \in SUBSET {"dev", "test"}}

\* the devDependencies of the generated manifests: one entry no flag
\* knows, one that --typescript sets as well
GenDevDependencies ==
    {Restrict(("eslint" :> "^8.0.0") @@ ("typescript" :> "^4.9.0"), S) :
        S \in SUBSET {"eslint", "typescript"}}

\* the manifests processTemplate is called on
GenManifests ==
    {[NoJson EXCEPT !.tag = "object",
                    !.keys = {"name", "version"}
                             \cup (IF s = EmptyMap THEN {} ELSE {"scripts"})
                             \cup (IF d = EmptyMap THEN {}
                                   ELSE {"devDependencies"}),
                    !.name = n,
                    !.version = "1.0.0",
                    !.scripts = s,
                    !.devDependencies = d] :
        n \in {<<"{{", "projectName", "}}">>, <<"starter">>},
        s \in GenScripts, d \in GenDevDependencies}

\* the directories processTemplate is called on: with a manifest, without
\* one, with one that does not parse, with one that is the JSON text null
ManifestTrees ==
    {(<<PackageJson>> :> JsonFile(m)) : m \in GenManifests}
    \cup {EmptyTree,
          (<<PackageJson>> :> TextFile(<<"x">>)),
          (<<PackageJson>> :> JsonFile(JsonNull))}

InitManifest ==
    /\ target0 \in {Target("dir", TRUE, TRUE, t) : t \in ManifestTrees}
    /\ options \in {[DefaultOptions EXCEPT !.typescript = ts, !.tailwind = tw] :
                       ts \in BOOLEAN, tw \in BOOLEAN}
    /\ projectName = <<"my-site">>
    /\ layout = "checkout"
    /\ templateDisk = Missing
    /\ target = target0
    /\ pc = "call"
    /\ templateType = "portfolio"
    /\ prompted = FALSE
    /\ dirCheck = checkDirectory(target0)
    /\ thrown = FALSE
    /\ exitCode = "none"
    /\ steps = <<>>
    /\ commands = <<>>
    /\ results = NoResults
    /\ processed = target0
    /\ atInstall = target0

\* processTemplate(projectPath, variables), called a first and a second
\* time on the same directory; processed keeps what the first call left
CallProcessTemplate ==
    /\ pc = "call"
    /\ Len(steps) < 2
    /\ \E ascending \in BOOLEAN :
         LET r == processTemplate(target, ProjectPath(projectName),
                      VariableMap(projectName, templateType, options),
                      ascending)
         IN  /\ target' = r.fs
             /\ processed' = IF Len(steps) = 0 THEN r.fs ELSE processed
             /\ results' = [results EXCEPT
                               !.writeJsonFile = r.wrote,
                               !.processTemplateFiles = r.substituted]
             /\ thrown' = r.threw
    /\ steps' = Append(steps, "processTemplate")
    /\ UNCHANGED <<projectName, options, layout, templateDisk, target0, pc,
                   templateType, prompted, dirCheck, exitCode, commands,
                   atInstall>>

NextManifest ==
    CallProcessTemplate

SpecManifest ==
    InitManifest /\ [][NextManifest]_vars

\* the manifest in the directory: what fs.readJson would give
ManifestOf(t) ==
    ReadPackageJson(t)

\* the directory held a manifest object before the first call
HadManifest ==
    ManifestOf(target0).tag = "object"

----------------------------------------------------------------------------
(* C14 *)

\* C14 as stated: patching an existing manifest with processTemplate leaves
\* every script that was in it in it, with the command it had, whatever the
\* typescript and tailwind flags are.
C14_ScriptsUntouched ==
    (HadManifest /\ Len(steps) >= 1) =>
        \A k \in DOMAIN ManifestOf(target0).scripts :
            /\ k \in DOMAIN ManifestOf(processed).scripts
            /\ ManifestOf(processed).scripts[k] =
                  ManifestOf(target0).scripts[k]

\* C14 amended: patching an existing manifest with processTemplate removes
\* no script and adds none, whatever the typescript and tailwind flags are;
\* the command of a script is as it was, except that each {{k}} in it, k a
\* key of the variables, has been replaced by the value, package.json being
\* one of the files the substitution of processTemplate goes through.
C14_ScriptsKeptUpToSubstitution ==
    (HadManifest /\ Len(steps) >= 1) =>
        /\ results.writeJsonFile = "true"
        /\ \A k \in DOMAIN ManifestOf(target0).scripts :
              /\ k \in DOMAIN ManifestOf(processed).scripts
              /\ ManifestOf(processed).scripts[k] =
                    Substituted(ManifestOf(target0).scripts[k], RunVariables)
              /\ ~HasResolvable(ManifestOf(target0).scripts[k], RunVariables)
                    => ManifestOf(processed).scripts[k] =
                          ManifestOf(target0).scripts[k]

C14_Witness ==
    /\ HadManifest
    /\ Len(steps) >= 1
    /\ options.typescript /\ options.tailwind
    /\ ManifestOf(target0).scripts =
          ("dev" :> <<"deploy ", "{{", "projectName", "}}">>)
          @@ ("test" :> <<"jest">>)
    /\ ManifestOf(processed).scripts =
          ("dev" :> <<"deploy ", "my-site">>) @@ ("test" :> <<"jest">>)

----------------------------------------------------------------------------
(* C15 *)

\* the devDependencies the feature flags of the run ask for
FlagDeps ==
    (IF options.tailwind THEN TailwindDeps ELSE EmptyMap)
    @@ (IF options.typescript THEN TypeScriptDeps ELSE EmptyMap)

\* the manifest is the baseline one for the project: the name, version
\* 0.1.0, private, the four next scripts, and the flags' devDependencies
IsBaselineManifest(doc) ==
    /\ doc.tag = "object"
    /\ doc.keys = {"name", "version", "private", "scripts"}
                  \cup (IF FlagDeps = EmptyMap THEN {}
                        ELSE {"devDependencies"})
    /\ doc.name = projectName
    /\ doc.version = "0.1.0"
    /\ doc.scripts = BaselineScripts
    /\ DOMAIN doc.scripts = {"dev", "build", "start", "lint"}
    /\ doc.devDependencies = FlagDeps

\* C15: when createApp reaches processTemplate and the copied template has
\* no readable manifest (package.json missing, or not parsable), the step
\* does not fail: nothing is thrown and the run goes on to the install step;
\* a baseline manifest is synthesised and written wherever the target can
\* be written, and whenever the write succeeds the target's package.json is
\* that baseline manifest.
C15_MissingManifestSynthesised ==
    [][(pc = "process" /\ ReadPackageJson(target).tag = "none") =>
          /\ pc' = "install"
          /\ ~thrown'
          /\ Did("process")'
          /\ results'.writeJsonFile \in {"true", "false"}
          /\ CanWrite(target) => results'.writeJsonFile = "true"
          /\ results'.writeJsonFile = "true" =>
                IsBaselineManifest(ReadPackageJson(target'))]_vars

C15_Witness ==
    /\ Did("process")
    /\ layout = "checkout"
    /\ templateDisk.kind = "dir"
    /\ templateDisk.tree = BrokenTemplate
    /\ results.copyFiles = "true"
    /\ results.writeJsonFile = "true"
    /\ options.typescript
    /\ IsBaselineManifest(ReadPackageJson(processed))

----------------------------------------------------------------------------
(* C19 *)

----------------------------------------------------------------------------
(* C20 *)

\* C20: for each of the flags typescript and tailwind that is active,
\* processTemplate merges the flag's fixed entries into devDependencies:
\* afterwards every entry of the flag is there with the flag's version,
\* every devDependency the manifest had under another name is there with
\* the version it had, and nothing else is; without a flag the mapping is
\* as it was.  A second call with the same flags leaves the mapping the
\* first call produced.
C20_DevDependenciesMerged ==
    (HadManifest /\ Len(steps) >= 1) =>
        LET before == ManifestOf(target0).devDependencies
            once == ManifestOf(processed).devDependencies
            now == ManifestOf(target).devDependencies
        IN  /\ DOMAIN once = DOMAIN before \cup DOMAIN FlagDeps
            /\ \A d \in DOMAIN FlagDeps : once[d] = FlagDeps[d]
            /\ \A d \in DOMAIN before \ DOMAIN FlagDeps : once[d] = before[d]
            /\ options.typescript => DOMAIN TypeScriptDeps \subseteq DOMAIN once
            /\ options.tailwind => DOMAIN TailwindDeps \subseteq DOMAIN once
            /\ "devDependencies" \in ManifestOf(processed).keys
                  <=> ("devDependencies" \in ManifestOf(target0).keys
                       \/ options.typescript \/ options.tailwind)
            /\ Len(steps) = 2 =>
                  /\ now = once
                  /\ ManifestOf(target).keys = ManifestOf(processed).keys

C20_Witness ==
    /\ HadManifest
    /\ Len(steps) = 2
    /\ options.typescript /\ ~options.tailwind
    /\ ManifestOf(target0).devDependencies =
          ("eslint" :> "^8.0.0") @@ ("typescript" :> "^4.9.0")
    /\ ManifestOf(target).devDependencies =
          ("eslint" :> "^8.0.0") @@ TypeScriptDeps

----------------------------------------------------------------------------
(* C17 *)

\* C17 as stated: after a successful copyFiles as createApp calls it, every
\* file or directory of the source with no path segment equal to an
\* excluded name is in the destination, as it is in the source.
C17_EverythingElseCopied ==
    results.copyFiles = "true" =>
        \A p \in DOMAIN templateDisk.tree :
            ~UnderExcluded(p) =>
                /\ p \in DOMAIN target.entries
                /\ target.entries[p] = templateDisk.tree[p]

----------------------------------------------------------------------------
(* C18 *)

\* C18 as stated: for every mapping of variables and every tree, a second
\* run of processTemplateFiles with the same variables leaves the tree the
\* first run left: the same paths with the same contents.
C18_TwiceIsOnce ==
    Len(steps) = 2 => target.entries = processed.entries

----------------------------------------------------------------------------
(* The validate-templates script: createBasicTemplate,                     *)
(* createBasicPackageJson, getTemplateIndexContent; then                   *)
(* processTemplateFiles on what it produced.                               *)

StylesDir == <<"styles">>
GlobalsCss == <<"globals", ".css">>

\* the template names createBasicTemplate is called with: the four required
\* ones and one it has no description for
BasicTemplateNames ==
    TemplateKeys \cup {"blog"}

\* templateName.charAt(0).toUpperCase() + templateName.slice(1)
Capitalized(templateName) ==
    CASE templateName = "portfolio" -> "Portfolio"
      [] templateName = "ecom" -> "Ecom"
      [] templateName = "dashboard" -> "Dashboard"
      [] templateName = "webapp" -> "Webapp"
      [] OTHER -> "Blog"

\* the object createBasicPackageJson writes
createBasicPackageJson(templateName) ==
    [NoJson EXCEPT
        !.tag = "object",
        !.keys = {"name", "version", "private", "scripts", "dependencies",
                  "devDependencies"},
        !.name = <<"{{", "projectName", "}}">>,
        !.version = "0.1.0",
        !.scripts = ("dev" :> <<"next dev">>) @@ ("build" :> <<"next build">>)
                    @@ ("start" :> <<"next start">>)
                    @@ ("lint" :> <<"next lint">>),
        !.dependencies =
            (IF templateName = "dashboard" THEN ("recharts" :> "^2.8.0")
             ELSE IF templateName = "ecom" THEN ("stripe" :> "^14.0.0")
             ELSE EmptyMap)
            @@ ("next" :> "^14.0.0") @@ ("react" :> "^18.2.0")
            @@ ("react-dom" :> "^18.2.0"),
        !.devDependencies =
            ("eslint" :> "^8.0.0") @@ ("eslint-config-next" :> "^14.0.0")]

getTemplateDescription(templateName) ==
    CASE templateName = "portfolio" ->
             "A beautiful portfolio template to showcase your work"
      [] templateName = "ecom" ->
             "An e-commerce template with shopping cart functionality"
      [] templateName = "dashboard" ->
             "A dashboard template with charts and analytics"
      [] templateName = "webapp" ->
             "A full-stack web application template"
      [] OTHER -> "A Next.js application template"

getTemplateIndexContent(templateName) ==
    <<"<title>", "{{", "projectName", "}}", "</title>",
      "Welcome to ", "{{", "projectName", "}}",
      getTemplateDescription(templateName),
      "Get started by editing <code>pages/index.js</code>">>

\* the readme createBasicTemplate writes
BasicReadme(templateName) ==
    <<"# ", "{{", "projectName", "}}",
      " created with create-titas-app using the ", templateName, " template",
      "## Template: ", Capitalized(templateName)>>

\* what createBasicTemplate puts below the template path, in its order:
\* fs.writeJson, fs.writeFile and fs.ensureDir
BasicWrites(templateName) ==
    <<[path |-> <<PackageJson>>,
       entry |-> JsonFile(createBasicPackageJson(templateName))],
      [path |-> <<ReadmeMd>>, entry |-> TextFile(BasicReadme(templateName))],
      [path |-> <<PagesDir>>, entry |-> Dir],
      [path |-> <<PagesDir, IndexJs>>,
       entry |-> TextFile(getTemplateIndexContent(templateName))],
      [path |-> <<StylesDir>>, entry |-> Dir],
      [path |-> <<StylesDir, GlobalsCss>>,
       entry |-> TextFile(<<"html, body { padding: 0; margin: 0; }">>)]>>

\* whether the write succeeds: ensureDir fails on a file, writeFile and
\* writeJson fail on a directory, both fail where nothing can be created
CanPut(t, w) ==
    /\ CanWrite(t)
    /\ Parent(w.path) # <<>> => IsDir(t.entries, Parent(w.path))
    /\ IF w.entry.type = "dir" THEN ~IsFile(t.entries, w.path)
       ELSE ~IsDir(t.entries, w.path)

\* the target after the write: ensureDir keeps a directory that is there
Put(t, w) ==
    IF w.entry.type = "dir" /\ IsDir(t.entries, w.path) THEN t
    ELSE [t EXCEPT !.entries = (w.path :> w.entry) @@ @]

RECURSIVE ApplyWrites(_, _)
\* the writes in order, up to the first that throws
ApplyWrites(t, ws) ==
    IF ws = <<>> THEN [ok |-> TRUE, fs |-> t]
    ELSE IF ~CanPut(t, Head(ws)) THEN [ok |-> FALSE, fs |-> t]
    ELSE ApplyWrites(Put(t, Head(ws)), Tail(ws))

\* createBasicTemplate that writes no page and no styles
createBasicTemplate_NoPage(t, templateName) ==
    LET d == ensureDirectory(t)
    IN  IF ~d.ok THEN d
        ELSE ApplyWrites(d.fs, SubSeq(BasicWrites(templateName), 1, 2))

\* createBasicTemplate(templatesDir, templateName), t being the template
\* path: the whole body is in a try whose catch only logs; ok is what the
\* log says
createBasicTemplate(t, templateName) ==
    LET d == ensureDirectory(t)
    IN  IF ~d.ok THEN d
        ELSE ApplyWrites(d.fs, BasicWrites(templateName))

\* what the template path is before the script runs
BasicTargets ==
    InitialTargets
    \cup {Target("dir", TRUE, FALSE, EmptyTree),
          Target("dir", TRUE, TRUE, (<<PagesDir>> :> TextFile(<<"x">>))),
          Target("dir", TRUE, TRUE, (<<ReadmeMd>> :> Dir)),
          Target("dir", TRUE, TRUE,
                 (<<PagesDir>> :> Dir) @@
                 (<<PagesDir, IndexJs>> :> TextFile(<<"x">>)))}

InitBootstrap ==
    /\ target0 \in BasicTargets
    /\ projectName \in SubstValues
    /\ templateType \in BasicTemplateNames
    /\ options = DefaultOptions
    /\ layout = "checkout"
    /\ templateDisk = Missing
    /\ target = target0
    /\ pc = "bootstrap"
    /\ prompted = FALSE
    /\ dirCheck = checkDirectory(target0)
    /\ thrown = FALSE
    /\ exitCode = "none"
    /\ steps = <<>>
    /\ commands = <<>>
    /\ results = NoResults
    /\ processed = target0
    /\ atInstall = target0

\* createBasicTemplate(templatesDir, templateType)
CallCreateBasicTemplate ==
    /\ pc = "bootstrap"
    /\ LET r == createBasicTemplate(target, templateType)
       IN  /\ target' = r.fs
           /\ results' = [results EXCEPT
                             !.createBasicTemplate = BoolText(r.ok)]
    /\ pc' = "substitute"
    /\ steps' = Append(steps, "createBasicTemplate")
    /\ UNCHANGED <<projectName, options, layout, templateDisk, target0,
                   templateType, prompted, dirCheck, thrown, exitCode,
                   commands, processed, atInstall>>

\* processTemplateFiles on the tree createBasicTemplate left
SubstituteBasicTemplate ==
    /\ pc = "substitute"
    /\ \E ascending \in BOOLEAN :
         LET r == processTemplateFiles(target, SubstRoot, SubstVariables,
                                       ascending)
         IN  /\ target' = r.fs
             /\ processed' = r.fs
             /\ results' = [results EXCEPT
                               !.processTemplateFiles = BoolText(r.ok)]
    /\ pc' = "substituted"
    /\ steps' = Append(steps, "processTemplateFiles")
    /\ UNCHANGED <<projectName, options, layout, templateDisk, target0,
                   templateType, prompted, dirCheck, thrown, exitCode,
                   commands, atInstall>>

NextBootstrap ==
    \/ CallCreateBasicTemplate
    \/ SubstituteBasicTemplate

SpecBootstrap ==
    InitBootstrap /\ [][NextBootstrap]_vars

----------------------------------------------------------------------------
(* C16 *)

\* the content holds the placeholder of key k
HoldsPlaceholder(content, k) ==
    \E i \in 1..(Len(content) - 2) :
        /\ content[i] = "{{"
        /\ content[i + 1] = k
        /\ content[i + 2] = "}}"

\* the file holds the placeholder of key k somewhere
EntryHoldsPlaceholder(e, k) ==
    IF e.json.tag = "object"
    THEN \/ HoldsPlaceholder(e.json.name, k)
         \/ HoldsPlaceholder(e.json.description, k)
         \/ \E s \in DOMAIN e.json.scripts :
               HoldsPlaceholder(e.json.scripts[s], k)
    ELSE HoldsPlaceholder(e.text, k)

\* C16: for every template name, the tree createBasicTemplate produces has,
\* after processTemplateFiles with a mapping that contains projectName, a
\* manifest package.json, a readme README.md and a starter page
\* pages/index.js, and no file of it holds {{projectName}} (a project name
\* that is itself made of braces aside).  createBasicTemplate produces the
\* tree wherever the template path can be created or is an empty directory
\* that can be written, and the substitution succeeds wherever that
\* directory can be listed.
C16_BootstrapSubstituted ==
    /\ (Did("createBasicTemplate")
        /\ (target0.kind = "absent" \/ DOMAIN target0.entries = {})
        /\ target0.writable)
          => results.createBasicTemplate = "true"
    /\ (pc = "substituted" /\ results.createBasicTemplate = "true"
        /\ (target0.kind = "absent" \/ target0.listable))
          => results.processTemplateFiles = "true"
    /\ (pc = "substituted" /\ results.createBasicTemplate = "true"
        /\ results.processTemplateFiles = "true") =>
          /\ IsFile(target.entries, <<PackageJson>>)
          /\ target.entries[<<PackageJson>>].json.tag = "object"
          /\ target.entries[<<PackageJson>>].json.name = projectName
          /\ IsFile(target.entries, <<ReadmeMd>>)
          /\ IsFile(target.entries, <<PagesDir, IndexJs>>)
          /\ ~Includes(projectName, "{{") =>
                \A p \in DOMAIN target.entries :
                    ~EntryHoldsPlaceholder(target.entries[p], "projectName")

C16_Witness ==
    /\ pc = "substituted"
    /\ results.createBasicTemplate = "true"
    /\ templateType = "dashboard"
    /\ projectName = <<"my-site">>
    /\ target0.kind = "absent"
    /\ target.entries[<<PackageJson>>].json.name = <<"my-site">>
    /\ target.entries[<<PagesDir, IndexJs>>].text[2] = "my-site"
    /\ SubSeq(target.entries[<<ReadmeMd>>].text, 1, 2) = <<"# ", "my-site">>

----------------------------------------------------------------------------
(* initializeGit called on its own, one step of its body at a time: on a   *)
(* directory in each state it can be called in, with each combination of   *)
(* its options addGitignore and createInitialCommit.                       *)

\* the directories initializeGit is called on
GitTargets ==
    LET manifest == (<<PackageJson>> :> JsonFile(SynthManifest(<<"my-site">>)))
        modules == (<<NodeModules>> :> Dir) @@
                   (<<NodeModules, IndexJs>> :> TextFile(<<"x">>))
    IN  {Target("dir", TRUE, TRUE, EmptyTree),
         Target("dir", TRUE, TRUE, manifest),
         Target("dir", TRUE, TRUE, manifest @@ modules),
         Target("dir", TRUE, TRUE, manifest @@ (<<DotGit>> :> Dir)),
         Target("dir", TRUE, TRUE,
                manifest @@ modules @@ (<<DotGit>> :> TextFile(<<"x">>))),
         Target("dir", TRUE, TRUE,
                manifest @@ modules @@ (<<Gitignore>> :> Dir)),
         Target("dir", TRUE, TRUE,
                manifest @@ modules @@ (<<Gitignore>> :> TextFile(<<"x">>))),
         Target("dir", TRUE, FALSE, manifest),
         Target("dir", TRUE, FALSE, manifest @@ (<<DotGit>> :> Dir)),
         Target("absent", FALSE, TRUE, EmptyTree),
         Target("file", FALSE, FALSE, EmptyTree)}

InitGit ==
    /\ target0 \in GitTargets
    /\ options \in [addGitignore : BOOLEAN, createInitialCommit : BOOLEAN]
    /\ projectName = <<"my-site">>
    /\ layout = "checkout"
    /\ templateDisk = Missing
    /\ target = target0
    /\ pc = "isGitAvailable"
    /\ templateType = "portfolio"
    /\ prompted = FALSE
    /\ dirCheck = checkDirectory(target0)
    /\ thrown = FALSE
    /\ exitCode = "none"
    /\ steps = <<>>
    /\ commands = <<>>
    /\ results = NoResults
    /\ processed = target0
    /\ atInstall = target0

\* initializeGit, lines 179-184: without git, warn and return false
GitCheckAvailable ==
    /\ pc = "isGitAvailable"
    /\ \E available \in BOOLEAN :
         /\ pc' = IF available THEN "isGitRepository" ELSE "returned"
         /\ results' = IF available THEN results
                       ELSE [results EXCEPT !.initializeGit = "false"]
    /\ commands' = Append(commands, GitVersion)
    /\ steps' = Append(steps, "isGitAvailable")
    /\ UNCHANGED <<projectName, options, layout, templateDisk, target0,
                   target, templateType, prompted, dirCheck, thrown,
                   exitCode, processed, atInstall>>

\* GitCheckRepository that does not look for .git
GitCheckRepository_Skipped ==
    /\ pc = "isGitRepository"
    /\ pc' = "init"
    /\ steps' = Append(steps, "isGitRepository")
    /\ UNCHANGED <<projectName, options, layout, templateDisk, target0,
                   target, templateType, prompted, dirCheck, thrown,
                   exitCode, commands, results, processed, atInstall>>

\* initializeGit, lines 187-194: in a repository, warn and return true
GitCheckRepository ==
    /\ pc = "isGitRepository"
    /\ pc' = IF PathExists(target, <<DotGit>>) THEN "returned" ELSE "init"
    /\ results' = IF PathExists(target, <<DotGit>>)
                  THEN [results EXCEPT !.initializeGit = "true"]
                  ELSE results
    /\ steps' = Append(steps, "isGitRepository")
    /\ UNCHANGED <<projectName, options, layout, templateDisk, target0,
                   target, templateType, prompted, dirCheck, thrown,
                   exitCode, commands, processed, atInstall>>

\* initializeGit, lines 199-202: git init; a failure goes to the catch
GitInitStep ==
    /\ pc = "init"
    /\ \E ok \in BOOLEAN :
         /\ ok => CanWrite(target)
         /\ target' = IF ok THEN AfterGitInit(target) ELSE target
         /\ pc' = IF ~ok THEN "returned"
                  ELSE IF options.addGitignore THEN "gitignore"
                  ELSE IF options.createInitialCommit THEN "add"
                  ELSE "returned"
         /\ results' = IF ~ok
                       THEN [results EXCEPT !.initializeGit = "false"]
                       ELSE IF ~options.addGitignore
                               /\ ~options.createInitialCommit
                       THEN [results EXCEPT !.initializeGit = "true"]
                       ELSE results
    /\ commands' = Append(commands, GitInit)
    /\ steps' = Append(steps, "init")
    /\ UNCHANGED <<projectName, options, layout, templateDisk, target0,
                   templateType, prompted, dirCheck, thrown, exitCode,
                   processed, atInstall>>

\* initializeGit, lines 205-207: createGitignore, its result dropped
GitignoreStep ==
    /\ pc = "gitignore"
    /\ target' = createGitignore(target)
    /\ pc' = IF options.createInitialCommit THEN "add" ELSE "returned"
    /\ results' = IF options.createInitialCommit THEN results
                  ELSE [results EXCEPT !.initializeGit = "true"]
    /\ steps' = Append(steps, "gitignore")
    /\ UNCHANGED <<projectName, options, layout, templateDisk, target0,
                   templateType, prompted, dirCheck, thrown, exitCode,
                   commands, processed, atInstall>>

\* GitAddStep that goes on to the commit when git add has failed
GitAddStep_Continues ==
    /\ pc = "add"
    /\ \E ok \in BOOLEAN :
         target' = IF ok THEN AfterGitAdd(target) ELSE target
    /\ pc' = "commit"
    /\ processed' = target
    /\ commands' = Append(commands, GitAdd)
    /\ steps' = Append(steps, "add")
    /\ UNCHANGED <<projectName, options, layout, templateDisk, target0,
                   templateType, prompted, dirCheck, thrown, exitCode,
                   results, atInstall>>

\* initializeGit, lines 209-211: git add .; processed keeps the directory
\* as the command found it
GitAddStep ==
    /\ pc = "add"
    /\ \E ok \in BOOLEAN :
         /\ target' = IF ok THEN AfterGitAdd(target) ELSE target
         /\ pc' = IF ok THEN "commit" ELSE "returned"
         /\ results' = IF ok THEN results
                       ELSE [results EXCEPT !.initializeGit = "false"]
    /\ processed' = target
    /\ commands' = Append(commands, GitAdd)
    /\ steps' = Append(steps, "add")
    /\ UNCHANGED <<projectName, options, layout, templateDisk, target0,
                   templateType, prompted, dirCheck, thrown, exitCode,
                   atInstall>>

\* initializeGit, lines 213-222: git commit, then return true
GitCommitStep ==
    /\ pc = "commit"
    /\ \E ok \in BOOLEAN :
         results' = [results EXCEPT !.initializeGit = BoolText(ok)]
    /\ pc' = "returned"
    /\ commands' = Append(commands, GitCommit)
    /\ steps' = Append(steps, "commit")
    /\ UNCHANGED <<projectName, options, layout, templateDisk, target0,
                   target, templateType, prompted, dirCheck, thrown,
                   exitCode, processed, atInstall>>

NextGit ==
    \/ GitCheckAvailable
    \/ GitCheckRepository
    \/ GitInitStep
    \/ GitignoreStep
    \/ GitAddStep
    \/ GitCommitStep

SpecGit ==
    InitGit /\ [][NextGit]_vars

\* initializeGit as one function gives what its steps give: the state the
\* steps return in is the result of the function for some way the commands
\* can go
StepsRefineInitializeGit ==
    pc = "returned" =>
        \E available \in BOOLEAN, failAt \in {"none", "init", "add", "commit"} :
            LET r == initializeGit(target0, available, failAt, options)
            IN  /\ r.fs = target
                /\ r.commands = commands
                /\ r.ret = results.initializeGit

----------------------------------------------------------------------------
(* C21 *)

\* initializeGit found git missing: it returned from its first check
GitWasMissing ==
    pc = "returned" /\ steps = <<"isGitAvailable">>

\* C21: when git is not available, or the directory already holds an entry
\* .git, initializeGit does nothing: no git command is run in the
\* directory, the directory is as it was (no .gitignore, no .git written),
\* and the function returns, false without git and true in a repository,
\* without throwing.
C21_NoGitOrRepositoryIsNoOp ==
    (GitWasMissing \/ PathExists(target0, <<DotGit>>)) =>
        /\ \A c \in RepositoryCommands : ~Ran(c)
        /\ target = target0
        /\ ~Did("init") /\ ~Did("gitignore") /\ ~Did("add") /\ ~Did("commit")
        /\ ~thrown
        /\ pc = "returned" =>
              results.initializeGit =
                  IF GitWasMissing THEN "false" ELSE "true"

C21_Witness ==
    /\ pc = "returned"
    /\ IsFile(target0.entries, <<DotGit>>)
    /\ IsDir(target0.entries, <<NodeModules>>)
    /\ options.addGitignore /\ options.createInitialCommit
    /\ commands = <<GitVersion>>
    /\ results.initializeGit = "true"
    /\ ~PathExists(target, <<Gitignore>>)

----------------------------------------------------------------------------
(* C22 *)

\* the steps of initializeGit that act on the directory, in the order of
\* its code
GitStepOrder ==
    <<"init", "gitignore", "add", "commit">>

\* the steps of that kind taken so far
GitStepsTaken ==
    SelectSeq(steps, LAMBDA s : s \in {"init", "gitignore", "add", "commit"})

\* the git commands run in the directory so far
RepositoryCommandsRun ==
    SelectSeq(commands, LAMBDA c : c \in RepositoryCommands)

\* sequence s is the beginning of sequence t
IsPrefix(s, t) ==
    Len(s) <= Len(t) /\ s = SubSeq(t, 1, Len(s))

\* C22: with git available, the directory not a repository and the options
\* at their defaults, initializeGit takes its steps in the order git init
\* on branch main, write .gitignore, git add ., git commit, none of them
\* twice; a step is taken only when the git commands before it succeeded
\* (after git init there is .git, after git add . there is the index); and
\* when it returns true all four were taken, one commit was made, .git is
\* there, the standard .gitignore is there unless a directory stands in its
\* place, and what was staged is what was in the directory and not ignored.
C22_GitStepsInOrder ==
    (options.addGitignore /\ options.createInitialCommit
     /\ ~PathExists(target0, <<DotGit>>)) =>
        /\ IsPrefix(GitStepsTaken, GitStepOrder)
        /\ IsPrefix(RepositoryCommandsRun, <<GitInit, GitAdd, GitCommit>>)
        /\ GitInit = "git init --initial-branch=main"
        /\ (Did("gitignore") \/ Did("add")) => IsDir(target.entries, <<DotGit>>)
        /\ Did("commit") => IsDir(target.entries, <<DotGit, GitIndex>>)
        /\ (pc = "returned" /\ results.initializeGit = "true") =>
              /\ GitStepsTaken = GitStepOrder
              /\ RepositoryCommandsRun = <<GitInit, GitAdd, GitCommit>>
              /\ IsDir(target.entries, <<DotGit>>)
              /\ ~IsDir(target0.entries, <<Gitignore>>) =>
                    /\ IsFile(target.entries, <<Gitignore>>)
                    /\ target.entries[<<Gitignore>>] =
                          createGitignore(processed).entries[<<Gitignore>>]
              /\ \A p \in Staged(processed) :
                    /\ (<<DotGit, GitIndex>> \o p) \in DOMAIN target.entries
                    /\ target.entries[<<DotGit, GitIndex>> \o p] =
                          processed.entries[p]

C22_Witness ==
    /\ pc = "returned"
    /\ results.initializeGit = "true"
    /\ options.addGitignore /\ options.createInitialCommit
    /\ DOMAIN target0.entries = {<<PackageJson>>}
    /\ steps = <<"isGitAvailable", "isGitRepository", "init", "gitignore",
                 "add", "commit">>
    /\ commands = <<GitVersion, GitInit, GitAdd, GitCommit>>
    /\ IsFile(target.entries, <<DotGit, GitIndex, PackageJson>>)
    /\ IsFile(target.entries, <<DotGit, GitIndex, Gitignore>>)

----------------------------------------------------------------------------
(* C29 *)

\* C29 as stated: with addGitignore and createInitialCommit enabled, git
\* add . is run only on a directory that holds the standard .gitignore, and
\* so nothing below a node_modules directory is ever staged.
C29_AddOnlyAfterGitignore ==
    (options.addGitignore /\ options.createInitialCommit /\ Did("add")) =>
        /\ IsFile(processed.entries, <<Gitignore>>)
        /\ Includes(processed.entries[<<Gitignore>>].text, "node_modules")
        /\ \A p \in DOMAIN target.entries :
              (Len(p) > 2 /\ SubSeq(p, 1, 2) = <<DotGit, GitIndex>>) =>
                  \A i \in 3..Len(p) : p[i] # NodeModules

----------------------------------------------------------------------------
(* processTemplateFiles called on trees that hold files it cannot read or   *)
(* cannot write.                                                           *)

\* Entries in a generated tree with such files.
MaxWalk == 2

\* what an entry of those trees is: a directory, a file, a file that cannot
\* be written, a file that cannot be read
WalkEntries ==
    {Dir, TextFile(SubstText), ReadOnlyFile(SubstText),
     UnreadableFile(SubstText)}

WalkTrees(files) ==
    UNION {TreesIn(k, SubstOrder, WalkEntries) : k \in 0..files}

InitWalk ==
    /\ target0 \in {Target("dir", TRUE, TRUE, t) : t \in WalkTrees(MaxWalk)}
    /\ projectName = <<"my-site">>
    /\ options = DefaultOptions
    /\ layout = "checkout"
    /\ templateDisk = Missing
    /\ target = target0
    /\ pc = "call"
    /\ templateType = "portfolio"
    /\ prompted = FALSE
    /\ dirCheck = checkDirectory(target0)
    /\ thrown = FALSE
    /\ exitCode = "none"
    /\ steps = <<>>
    /\ commands = <<>>
    /\ results = NoResults
    /\ processed = target0
    /\ atInstall = target0

SpecWalk ==
    InitWalk /\ [][NextSubst]_vars

----------------------------------------------------------------------------
(* C23 *)

\* the files of the tree the walk reaches but cannot process: it cannot
\* read them, or it cannot write the changed content back
Unprocessable(tree) ==
    {p \in Eligible(tree) :
        \/ tree[p].mode = "none"
        \/ tree[p].mode = "r" /\ EntryHasResolvable(tree[p], SubstVariables)}

\* C23: a file the walk cannot read or write, or cannot rename, is skipped:
\* it stays as it is where it is, processTemplateFiles goes through the
\* rest of the tree and returns true, every other eligible file that stays
\* in place has its content replaced, and no file the walk can process is
\* left with a placeholder it resolves.
C23_UnprocessableFileSkipped ==
    Len(steps) >= 1 =>
        /\ results.processTemplateFiles = "true"
        /\ \A p \in Unprocessable(target0.entries) :
              /\ p \in DOMAIN processed.entries
              /\ processed.entries[p] = target0.entries[p]
        /\ \A p \in SubstitutedInPlace(target0.entries)
                       \ Unprocessable(target0.entries) :
              /\ IsFile(processed.entries, p)
              /\ processed.entries[p].text =
                    Substituted(target0.entries[p].text, SubstVariables)
        /\ \A q \in Eligible(processed.entries) :
              EntryHasResolvable(processed.entries[q], SubstVariables)
                  => q \in Unprocessable(target0.entries)

C23_Witness ==
    /\ Len(steps) >= 1
    /\ DOMAIN target0.entries = {<<ReadmeMd>>, <<IndexJs>>}
    /\ target0.entries[<<IndexJs>>] = UnreadableFile(SubstText)
    /\ target0.entries[<<ReadmeMd>>] = TextFile(SubstText)
    /\ processed.entries[<<IndexJs>>] = UnreadableFile(SubstText)
    /\ processed.entries[<<ReadmeMd>>].text =
          <<"# ", "my-site", " ", "{{", "author", "}}">>
    /\ results.processTemplateFiles = "true"

----------------------------------------------------------------------------
(* C24 *)

\* the files of the tree processFile does not touch: the extension is not
\* in the allow-list and the name does not end in the template suffix
OutsideAllowList(tree) ==
    {p \in DOMAIN tree :
        /\ IsFile(tree, p)
        /\ Extname(Basename(p)) \notin fileExtensions
        /\ ~EndsWith(Basename(p), templateSuffix)}

\* C24: processTemplateFiles leaves every file whose extension is outside
\* the allow-list and whose name does not end in ".template" as it is:
\* after the call, and after a second one, the file is at the same path
\* with the same content, placeholders included.
C24_OtherFilesUntouched ==
    Len(steps) >= 1 =>
        \A p \in OutsideAllowList(target0.entries) :
            /\ p \in DOMAIN processed.entries
            /\ processed.entries[p] = target0.entries[p]
            /\ p \in DOMAIN target.entries
            /\ target.entries[p] = target0.entries[p]

C24_Witness ==
    /\ Len(steps) >= 1
    /\ projectName = <<"my-site">>
    /\ DOMAIN target0.entries = {<<ReadmeMd>>, <<LogoPng>>}
    /\ target0.entries[<<LogoPng>>] = TextFile(SubstText)
    /\ target.entries[<<LogoPng>>] = TextFile(SubstText)
    /\ target.entries[<<ReadmeMd>>].text =
          <<"# ", "my-site", " ", "{{", "author", "}}">>

----------------------------------------------------------------------------
(* C28 *)

\* the directories of a tree
DirsOf(tree) ==
    {p \in DOMAIN tree : IsDir(tree, p)}

\* C28 as stated: a template file that processFile renames is afterwards at
\* its own path with the trailing ".template" taken off, in the directory
\* it was in: no other path receives it and no directory is made for it,
\* also when a parent directory or an earlier part of the file name holds
\* ".template".
C28_OnlyTrailingSuffixRemoved ==
    Len(steps) >= 1 =>
        /\ \A p \in TemplateFiles(target0.entries) :
              p \notin DOMAIN processed.entries
                  => IsFile(processed.entries, Stripped(p))
        /\ DirsOf(processed.entries) = DirsOf(target0.entries)

----------------------------------------------------------------------------
(* The walk of processTemplateFiles and the copy of createApp applied to    *)
(* the same tree.                                                          *)

\* Entries in a generated tree both are applied to.
MaxShared == 2

\* the names of those trees: the ones either rule mentions, and one neither
\* does
SharedOrder ==
    <<NodeModules, DotGit, Gitignore, PackageLock, YarnLock, PagesDir,
      ReadmeMd>>

SharedTrees(files) ==
    UNION {TreesIn(k, SharedOrder, {Dir, TextFile(SubstText)}) :
              k \in 0..files}

InitShared ==
    /\ templateDisk \in {OnDisk(t) : t \in SharedTrees(MaxShared)}
    /\ layout \in Layouts
    /\ projectName = <<"my-site">>
    /\ options = DefaultOptions
    /\ target0 = Target("dir", TRUE, TRUE, EmptyTree)
    /\ target = target0
    /\ pc = "walk"
    /\ templateType = "portfolio"
    /\ prompted = FALSE
    /\ dirCheck = checkDirectory(target0)
    /\ thrown = FALSE
    /\ exitCode = "none"
    /\ steps = <<>>
    /\ commands = <<>>
    /\ results = NoResults
    /\ processed = Target("dir", TRUE, TRUE, templateDisk.tree)
    /\ atInstall = target0

\* processTemplateFiles on the tree; processed holds what it leaves
WalkShared ==
    /\ pc = "walk"
    /\ \E ascending \in BOOLEAN :
         LET r == processTemplateFiles(processed,
                      TemplatePath(layout, templateType), SubstVariables,
                      ascending)
         IN  /\ processed' = r.fs
             /\ results' = [results EXCEPT
                               !.processTemplateFiles = BoolText(r.ok)]
    /\ pc' = "copy"
    /\ steps' = Append(steps, "walk")
    /\ UNCHANGED <<projectName, options, layout, templateDisk, target0,
                   target, templateType, prompted, dirCheck, thrown,
                   exitCode, commands, atInstall>>

NextShared ==
    \/ WalkShared
    \/ CopyTemplate

SpecShared ==
    InitShared /\ [][NextShared]_vars

----------------------------------------------------------------------------
(* C25 *)

\* the files of the tree on which a visit of the walk shows: the extension
\* is in the allow-list (their content holds a placeholder)
Visible(tree) ==
    {p \in DOMAIN tree :
        IsFile(tree, p) /\ Extname(Basename(p)) \in fileExtensions}

\* the walk has not been in the file
WalkSkipped(p) ==
    /\ p \in DOMAIN processed.entries
    /\ processed.entries[p] = templateDisk.tree[p]

\* the copy has not taken the file
CopyExcluded(p) ==
    p \notin DOMAIN target.entries

\* C25 as stated: the walk skips an entry exactly when the copy of
\* createApp leaves it out.
C25_WalkSkipsWhatCopyExcludes ==
    pc = "process" =>
        \A p \in Visible(templateDisk.tree) :
            WalkSkipped(p) <=> CopyExcluded(p)

\* C25 amended: the walk skips exactly what lies below a directory named
\* node_modules or .git; everything the walk skips the copy of createApp
\* leaves out as well, but the copy leaves out more.
C25_WalkSkipsLessThanCopy ==
    pc = "process" =>
        \A p \in Visible(templateDisk.tree) :
            /\ WalkSkipped(p) <=>
                  \E i \in 1..(Len(p) - 1) : p[i] \in {NodeModules, DotGit}
            /\ WalkSkipped(p) => CopyExcluded(p)

C25_Witness ==
    /\ pc = "process"
    /\ layout = "checkout"
    /\ results.copyFiles = "true"
    /\ DOMAIN templateDisk.tree = {<<NodeModules>>, <<NodeModules, ReadmeMd>>}
    /\ WalkSkipped(<<NodeModules, ReadmeMd>>)
    /\ CopyExcluded(<<NodeModules, ReadmeMd>>)
    /\ processed.entries[<<NodeModules, ReadmeMd>>].text = SubstText

----------------------------------------------------------------------------
(* C26 *)

\* the target path exists and cannot be listed: it is a regular file, or a
\* directory fs.readdir fails on
ListingFails(t) ==
    t.kind = "file" \/ (t.kind = "dir" /\ ~t.listable)

\* C26: checkDirectory throws nothing; on a target that exists and cannot
\* be listed it returns {exists: false, isEmpty: true}, what it returns for
\* an absent target, so the target check of createApp lets the run through:
\* it does not exit there, and goes on to ensureDirectory and the steps
\* after it.
C26_ListingFailureReadsAsAbsent ==
    (ListingFails(target0) /\ Did("checkDir")) =>
        /\ dirCheck = [exists |-> FALSE, isEmpty |-> TRUE]
        /\ dirCheck = checkDirectory(Target("absent", FALSE, TRUE, EmptyTree))
        /\ pc = "ensureDir" \/ Did("ensureDir")
        /\ pc = "ensureDir" => (~thrown /\ exitCode = "none")
        /\ Did("ensureDir") => (pc = "copy" \/ Did("copy"))

C26_Witness ==
    /\ target0.kind = "dir"
    /\ ~target0.listable
    /\ DOMAIN target0.entries # {}
    /\ Did("checkDir")
    /\ pc = "done"
    /\ exitCode = "0"
    /\ IsFile(target.entries, <<PackageJson>>)

----------------------------------------------------------------------------
(* C27 *)

\* the entries the install and the git step write themselves
InstallAndGitNames ==
    {NodeModules, PackageLock, DotGit, Gitignore}

----------------------------------------------------------------------------
(* C30 *)

\* the template flags of a command line, in the order they were typed:
\* every arrangement of every set of flags
CommandLines ==
    {argv \in UNION {[1..n -> TemplateKeys] : n \in 0..Len(Templates)} :
        \A i, j \in 1..Len(argv) : i # j => argv[i] # argv[j]}

\* Commander's options object for a command line: one boolean property per
\* flag, whatever the position of the flag
ParsedOptions(argv, opts) ==
    [k \in DOMAIN opts |->
        IF k \in TemplateKeys
        THEN \E i \in 1..Len(argv) : argv[i] = k
        ELSE opts[k]]

\* the first of a set of flags in the order of the templates array
FirstInOrder(flags) ==
    Templates[CHOOSE i \in 1..Len(Templates) :
                 /\ Templates[i] \in flags
                 /\ \A j \in 1..(i - 1) : Templates[j] \notin flags]

\* C30: with more than one template flag given, the prompt is not shown and
\* the template chosen is the first flag given in the order portfolio, ecom,
\* dashboard, webapp; every command line that carries the same set of flags,
\* in whatever order, gets the same template.
C30_FirstFlagInFixedOrder ==
    Cardinality(FlagsGiven) > 1 =>
        /\ ~prompted /\ pc # "prompt"
        /\ templateType # "none" =>
              /\ templateType = FirstInOrder(FlagsGiven)
              /\ \A argv \in CommandLines :
                    {argv[i] : i \in 1..Len(argv)} = FlagsGiven =>
                        /\ ParsedOptions(argv, options) = options
                        /\ determineTemplate(ParsedOptions(argv, options))
                              = [prompt |-> FALSE, key |-> templateType]
        /\ (pc \notin {"validate", "template"}
                /\ ValidForNewPackages(projectName)) => templateType # "none"

C30_Witness ==
    /\ FlagsGiven = {"webapp", "ecom", "dashboard"}
    /\ templateType = "ecom"
    /\ ~prompted
    /\ pc = "checkDir"

====
